---- MODULE Spec2Model ----
(***************************************************************************)
(* docflow-scanner-bridge: the eSCL scan state machine (scanner.rs), the   *)
(* folder watcher's per-file pipeline (folder_watcher.rs) and the agent    *)
(* lifecycle with its poller and watcher loops (main.rs, scan_poller.rs,   *)
(* folder_watcher.rs).  The specifications share one set of variables:    *)
(*   SpecScan       one invocation of scan_escl_with_tls                   *)
(*   SpecFolder     one FolderWatcher instance working a directory         *)
(*   Spec           the shell commands, the boot task and the spawned loops *)
(*   SpecPoller     one ScanPoller working the commands of its polls       *)
(*   SpecDiscovery  calls of discover_all in one environment               *)
(*   SpecPair       one pair_with_docflow command                          *)
(*   SpecLoopsLive  one long-lived loop on its own, with fairness          *)
(*   SpecRegistry   discover_scanners commands and a scan on the registry  *)
(*                  lock (SpecRegistryLive: with fairness of the write)    *)
(*   SpecCadence    the boot task, configure_folder_sync and the watcher   *)
(*                  loops on CYCLE_COUNTER                                 *)
(***************************************************************************)
EXTENDS Integers, Sequences, FiniteSets, TLC

VARIABLES
    \* ---- scanner.rs: scan_escl_with_tls ----
    scPc,          \* position in the scan: PreCheck, Pause, Sweep, Post, Retrieve, Done, Error
    attempt,       \* loop variable of `for attempt in 0..max_retries`
    job_url,       \* "" until a Location header was taken
    pages,         \* page_number of every ScannedPage pushed, in order
    page_number,   \* next page number
    scErr,         \* which Err the scan returned ("" while none)
    postLog,       \* responses to the POST ScanJobs requests issued so far
    sweepDeletes,  \* DELETE {base}/ScanJobs/<n> requests issued so far
    preDeletes,    \* DELETE requests issued by the pre-check
    docLog,        \* responses to the GET NextDocument requests issued so far
    target,        \* the registry entry the scan is called for: ip, port, use_tls, rs_path
    \* ---- folder_watcher.rs: one FolderWatcher working its directory ----
    dir,                 \* the watched directory: file name -> size in bytes, or NoFile
    uploadedDir,         \* <watch_path>/uploaded/: file name -> size in bytes, or NoFile
    post_upload_action,  \* config.post_upload_action
    fwPc,                \* position in start_watching / process_file
    queue,               \* directory entries of this cycle not yet visited
    pending_count,       \* start_watching: pending_count
    pf,                  \* locals of process_file / wait_for_file_stable / upload_file:
                         \*   path, sizes, file_hash, attempt, and the answers (upLog),
                         \*   the seconds slept (slept) and the last request (req) of upload_file
    known_hashes,        \* FolderWatcher.known_hashes
    fstatus,             \* FolderSyncStatus: files_uploaded, files_pending, errors, last_error
    cycleCounter,        \* static CYCLE_COUNTER (modulo 6)
    cycles,              \* completed cycles of the loop
    sentOnce,            \* the file_hash values at least one folder-upload request carried
    sentMore,            \* the file_hash values more than one folder-upload request carried
    postDone,            \* files for which post_upload_action returned Ok
    envWrites,           \* writes other processes made to files of the directory
    rejected,            \* some folder-upload request was not accepted by the backend
    dir0,                \* the directory when the watcher started
    \* ---- main.rs: AppState, the commands and the boot task; the spawned loops ----
    status,          \* AppState.bridge_status (all fields but version; an Option is
                     \* TRUE for Some)
    api_key,         \* AppState.api_key is Some
    poller,          \* AppState.poller: the ScanPoller it holds, 0 for None
    folder_watcher,  \* AppState.folder_watcher: the FolderWatcher it holds, 0 for None
    vault,           \* the keyring entries api_key, docflow_url, folder_sync_config
    pollers,         \* every ScanPoller: position of its task, status.running
    watchers,        \* every FolderWatcher: position of its task, status.running
    cmdPc,           \* position of each command and of the boot task
    cfgKey,          \* configure_folder_sync: the api_key it read
    discFinal,       \* a disconnect has returned and no pair command was started since
    cmds,            \* commands invoked so far
    overlap,         \* some command was invoked while another or the boot task was running
    \* ---- scan_poller.rs: one ScanPoller working the commands of its polls ----
    scanners,        \* AppState.scanners: the ids in the registry
    plPc,            \* position in start_polling: poll, next, execute, upload, report, sleep
    plJobs,          \* commands of the current poll not yet taken
    plJob,           \* the command being processed: position, job_id, scanner_id, error
    plStatus,        \* PollerStatus: jobs_processed, last_error, last_poll
    plLog,           \* scanner requests, uploads and error reports sent, each with its
                     \* answer and the command (poll, position, ids) it was sent for
    plPolls,         \* pending-scans requests sent
    \* ---- discovery.rs: calls of discover_all in one environment ----
    dEnv,            \* the services the environment resolves, per service type
    dProbes,         \* the targets that answer the probe of discover_ip_range
    dPc,             \* idle, browse, merge, done
    dWin,            \* index of the service type being browsed
    dPending,        \* services of that type not yet received as an event
    mdnsScanners,    \* discover_mdns: `scanners`, one entry per id
    escl_ips,        \* discover_mdns: ips found under an eSCL type
    dSeen,           \* candidates parsed in this call, and whether the eSCL-ip rule
                     \* dropped them
    dResults,        \* what the calls of discover_all returned so far
    \* ---- pairing.rs, main.rs: one pair_with_docflow command, with values ----
    pCode,           \* the pairing code: its text and, if it parses as JSON, its docflow_url
    pUrl,            \* the optional docflow_url argument
    pStart,          \* vault, api key, status and poller handle when the command began
    pPc,             \* idle, classify, resolve, register, store, install, paired, failed
    pEffective,      \* effective_url
    pReqs,           \* the HTTP requests sent, with their answers
    pResult,         \* the PairingResult that pairing::pair returns
    pVault,          \* the vault slots api_key and docflow_url
    pApiKey,         \* AppState.api_key
    pStatus,         \* bridge_status: connected, docflow_url, poller_active
    pPoller,         \* AppState.poller: 0 is None, else the number of the handle
    pTasks,          \* poller tasks spawned by the command
    \* ---- main.rs, scan_poller.rs, folder_watcher.rs: tasks that share a lock or a static ----
    calls,           \* discover_scanners: position and `scanners` of each running call
    regReaders,      \* read guards on AppState.scanners held by execute_scan_job
    cadence          \* per watcher: its cycles since its last periodic folder-sync-status
                     \* report (since) and whether it has sent one (first)

scanVars == <<scPc, attempt, job_url, pages, page_number, scErr, postLog,
              sweepDeletes, preDeletes, docLog, target>>

folderVars == <<dir, uploadedDir, post_upload_action, fwPc, queue, pending_count, pf,
                known_hashes, fstatus, cycles, sentOnce, sentMore, postDone,
                envWrites, rejected, dir0>>

agentVars == <<status, api_key, poller, folder_watcher, vault, pollers, watchers,
               cmdPc, cfgKey, discFinal, cmds, overlap>>

pollVars == <<scanners, plPc, plJobs, plJob, plStatus, plLog, plPolls>>

discVars == <<dEnv, dProbes, dPc, dWin, dPending, mdnsScanners, escl_ips, dSeen, dResults>>

pairVars == <<pCode, pUrl, pStart, pPc, pEffective, pReqs, pResult, pVault, pApiKey, pStatus,
              pPoller, pTasks>>

sharedVars == <<calls, regReaders, cadence>>

vars == <<scanVars, folderVars, cycleCounter, agentVars, pollVars, discVars, pairVars,
          sharedVars>>

\* What a step of one component leaves alone (CYCLE_COUNTER is a static that the
\* watcher loops of all instances share).
nonScanVars == <<folderVars, cycleCounter, agentVars, pollVars, discVars, pairVars, sharedVars>>
nonFolderVars == <<scanVars, agentVars, pollVars, discVars, pairVars, sharedVars>>
nonAgentVars == <<scanVars, folderVars, pollVars, discVars, pairVars, sharedVars>>
nonPollVars == <<scanVars, folderVars, cycleCounter, agentVars, discVars, pairVars, sharedVars>>
nonDiscVars == <<scanVars, folderVars, cycleCounter, agentVars, pollVars, pairVars, sharedVars>>
nonPairVars == <<scanVars, folderVars, cycleCounter, agentVars, pollVars, discVars, sharedVars>>

(***************************************************************************)
(* Bounds of the model                                                     *)
(***************************************************************************)
MaxPages == 2      \* pages a scanner hands out in one scan
MaxDocWaits == 2   \* "not ready" answers to NextDocument that docLog keeps
MaxStale == 1      \* JobUri lines in a ScannerStatus body
MaxSize == 2       \* largest size a file below the limit grows to
MaxEnvWrites == 2  \* writes by other processes to the watched directory
MaxCycles == 2     \* cycles of one watcher loop
MaxPollers == 2    \* ScanPoller instances whose task has not finished
MaxWatchers == 2   \* FolderWatcher instances whose task has not finished
MaxCmds == 2       \* commands the shell invokes, besides the boot task
MaxJobs == 2       \* commands in one pending-scans answer
MaxPolls == 1      \* pending-scans requests of one poller
MaxServices == 2   \* services an environment resolves
MaxRuns == 2       \* calls of discover_all in one environment
MaxCodeLen == 2    \* characters of a pairing code
MaxSlashes == 2    \* '/' characters at the end of a user-provided URL
MaxDiscovers == 2  \* discover_scanners commands in progress at a time

(***************************************************************************)
(* scanner.rs                                                              *)
(***************************************************************************)
max_retries == 4
SweepJobs == 20

\* What a scanner can answer to POST ScanJobs; "transport" is a send() error.
PostResponses == {"ok_loc", "ok_emptyloc", "ok_noloc", "conflict", "other", "transport"}
\* What a scanner can answer to GET NextDocument.
DocResponses == {"page", "notfound", "notready", "transport"}

IsSuccess(r) == r \in {"ok_loc", "ok_emptyloc", "ok_noloc"}

\* `status.as_u16() == 409 && attempt < max_retries - 1`
RetryOnConflictShort(r, a) == r = "conflict" /\ a < max_retries - 2
RetryOnAnyFailure(r, a) == r \in {"conflict", "other"} /\ a < max_retries - 1
RetryOnConflict(r, a) == r = "conflict" /\ a < max_retries - 1

\* The registry entries execute_scan_job can call the scan for: an IPv4 or an IPv6
\* address (the text of the ip and whether it contains ':'), a port, the TLS flag
\* and the resource path of the scanner.
ScanTargets ==
    [ip : {[text |-> "192.168.1.20", colon |-> FALSE], [text |-> "fe80::1", colon |-> TRUE]},
     port : {80, 443}, use_tls : BOOLEAN, rs_path : {"eSCL", "eSCL2"}]

\* The parts of `base_url`: scheme, host, port and path.
\* `format!("{}://{}:{}/eSCL", scheme, host, scanner_port)`
base_url ==
    [scheme |-> IF target.use_tls \/ target.port = 443 THEN "https" ELSE "http",
     host |-> IF target.ip.colon THEN <<"[", target.ip.text, "]">> ELSE <<target.ip.text>>,
     port |-> target.port,
     path |-> "eSCL"]

\* scan_escl_with_tls is called for the registry entry t.
ScanStart(t) ==
    /\ target = t
    /\ scPc = "PreCheck"
    /\ attempt = 0
    /\ job_url = ""
    /\ pages = <<>>
    /\ page_number = 1
    /\ scErr = ""
    /\ postLog = <<>>
    /\ sweepDeletes = 0
    /\ preDeletes = 0
    /\ docLog = <<>>

ScanIdle == ScanStart([ip |-> [text |-> "192.168.1.20", colon |-> FALSE], port |-> 80,
                       use_tls |-> FALSE, rs_path |-> "eSCL"])

\* execute_scan_job calls the scan for any entry of the registry.
ScanInit == \E t \in ScanTargets : ScanStart(t)

\* GET ScannerStatus; every JobUri line of a readable body is DELETEd.  All
\* errors are ignored.  stale = -1 stands for an unreachable scanner or body.
ScanPreCheck ==
    /\ UNCHANGED nonScanVars
    /\ UNCHANGED target
    /\ scPc = "PreCheck"
    /\ \E stale \in -1..MaxStale :
         preDeletes' = IF stale > 0 THEN stale ELSE 0
    /\ scPc' = "Post"
    /\ UNCHANGED <<attempt, job_url, pages, page_number, scErr, postLog,
                   sweepDeletes, docLog>>

\* ScanPause, but the sweep already precedes the POST with index 1.
ScanPauseSweepsEarly ==
    /\ UNCHANGED nonScanVars
    /\ UNCHANGED target
    /\ scPc = "Pause"
    /\ scPc' = IF attempt >= 1 THEN "Sweep" ELSE "Post"
    /\ UNCHANGED <<attempt, job_url, pages, page_number, scErr, postLog,
                   sweepDeletes, preDeletes, docLog>>

\* Top of a loop iteration with attempt > 0: sleep 3 s.
ScanPause ==
    /\ UNCHANGED nonScanVars
    /\ UNCHANGED target
    /\ scPc = "Pause"
    /\ scPc' = IF attempt >= 2 THEN "Sweep" ELSE "Post"
    /\ UNCHANGED <<attempt, job_url, pages, page_number, scErr, postLog,
                   sweepDeletes, preDeletes, docLog>>

\* attempt >= 2: DELETE ScanJobs/1 .. ScanJobs/20, errors ignored, then sleep 2 s.
ScanSweep ==
    /\ UNCHANGED nonScanVars
    /\ UNCHANGED target
    /\ scPc = "Sweep"
    /\ sweepDeletes' = sweepDeletes + SweepJobs
    /\ scPc' = "Post"
    /\ UNCHANGED <<attempt, job_url, pages, page_number, scErr, postLog,
                   preDeletes, docLog>>

\* POST ScanJobs and the handling of its response, up to the next loop
\* iteration, the break or the return.
ScanPost ==
    /\ UNCHANGED nonScanVars
    /\ UNCHANGED target
    /\ scPc = "Post"
    /\ \E r \in PostResponses :
         /\ postLog' = Append(postLog, r)
         /\ IF r = "transport"
              THEN /\ scPc' = "Error" /\ scErr' = "transport"
                   /\ UNCHANGED <<attempt, job_url>>
            ELSE IF IsSuccess(r)
              THEN IF r = "ok_noloc"
                     THEN /\ scPc' = "Error" /\ scErr' = "Keine Job-URL erhalten"
                          /\ UNCHANGED <<attempt, job_url>>
                   ELSE IF r = "ok_emptyloc"
                     \* break with job_url still empty: the check after the loop
                     THEN /\ scPc' = "Error" /\ scErr' = "Scanner dauerhaft busy"
                          /\ UNCHANGED <<attempt, job_url>>
                   ELSE /\ scPc' = "Retrieve" /\ job_url' = "location"
                        /\ UNCHANGED <<attempt, scErr>>
            ELSE IF RetryOnConflict(r, attempt)
              THEN /\ attempt' = attempt + 1
                   /\ scPc' = "Pause"
                   /\ UNCHANGED <<job_url, scErr>>
            ELSE /\ scPc' = "Error" /\ scErr' = "Scan-Job erstellen fehlgeschlagen"
                 /\ UNCHANGED <<attempt, job_url>>
    /\ UNCHANGED <<pages, page_number, sweepDeletes, preDeletes>>
    /\ UNCHANGED docLog

\* docLog keeps the answers to NextDocument, of the not-ready ones the first
\* MaxDocWaits.
DocWaits == Cardinality({i \in 1..Len(docLog) : docLog[i] = "notready"})

\* ScanNextDocument, but an answer that is neither 2xx nor 404 uses up a page
\* number.
ScanNextDocumentSkips ==
    /\ UNCHANGED nonScanVars
    /\ UNCHANGED target
    /\ scPc = "Retrieve"
    /\ \E r \in DocResponses :
         /\ r = "page" => Len(pages) < MaxPages
         /\ docLog' = IF r = "notready" /\ DocWaits >= MaxDocWaits
                         THEN docLog
                         ELSE Append(docLog, r)
         /\ CASE r = "transport" ->
                   /\ scPc' = "Error" /\ scErr' = "transport"
                   /\ UNCHANGED <<pages, page_number>>
              [] r = "notfound" ->
                   /\ scPc' = "Done"
                   /\ UNCHANGED <<pages, page_number, scErr>>
              [] r = "notready" ->
                   /\ scPc' = "RetryWait"
                   /\ page_number' = page_number + 1
                   /\ UNCHANGED <<pages, scErr>>
              [] r = "page" ->
                   /\ pages' = Append(pages, page_number)
                   /\ page_number' = page_number + 1
                   /\ UNCHANGED <<scPc, scErr>>
    /\ UNCHANGED <<attempt, job_url, postLog, sweepDeletes, preDeletes>>

\* GET {job_url}/NextDocument and the handling of its response.
ScanNextDocument ==
    /\ UNCHANGED nonScanVars
    /\ UNCHANGED target
    /\ scPc = "Retrieve"
    /\ \E r \in DocResponses :
         /\ r = "page" => Len(pages) < MaxPages
         /\ docLog' = IF r = "notready" /\ DocWaits >= MaxDocWaits
                         THEN docLog
                         ELSE Append(docLog, r)
         /\ CASE r = "transport" ->
                   /\ scPc' = "Error" /\ scErr' = "transport"
                   /\ UNCHANGED <<pages, page_number>>
              [] r = "notfound" ->
                   /\ scPc' = "Done"
                   /\ UNCHANGED <<pages, page_number, scErr>>
              [] r = "notready" ->
                   /\ scPc' = "RetryWait"
                   /\ UNCHANGED <<pages, page_number, scErr>>
              [] r = "page" ->
                   /\ pages' = Append(pages, page_number)
                   /\ page_number' = page_number + 1
                   /\ UNCHANGED <<scPc, scErr>>
    /\ UNCHANGED <<attempt, job_url, postLog, sweepDeletes, preDeletes>>

\* The 500 ms sleep after an answer that is neither 404 nor 2xx, then `continue`.
ScanRetryWait ==
    /\ UNCHANGED nonScanVars
    /\ UNCHANGED target
    /\ scPc = "RetryWait"
    /\ scPc' = "Retrieve"
    /\ UNCHANGED <<attempt, job_url, pages, page_number, scErr, postLog, sweepDeletes,
                   preDeletes, docLog>>

ScanNext ==
    \/ ScanPreCheck
    \/ ScanPause
    \/ ScanSweep
    \/ ScanPost
    \/ ScanNextDocument
    \/ ScanRetryWait

(***************************************************************************)
(* folder_watcher.rs                                                       *)
(***************************************************************************)
NoFile == -1
MAX_FILE_SIZE == 50 * 1024 * 1024
TelemetryEvery == 6
RateLimitSleep == 10
\* upload_file: `for attempt in 0..3u32`
MaxUploadAttemptsOneMore == 3 + 1
MaxUploadAttempts == 3

\* The names the directory can hold, with their extensions.
Names == {"a.pdf", "b.JPG", "n.txt"}
Extension(f) == CASE f = "a.pdf" -> "pdf" [] f = "b.JPG" -> "JPG" [] OTHER -> "txt"
ToLowercase(e) == IF e = "JPG" THEN "jpg" ELSE e
ALLOWED_EXTENSIONS == {"pdf", "jpg", "jpeg", "png", "tiff", "tif"}
is_allowed_extension(f) == ToLowercase(Extension(f)) \in ALLOWED_EXTENSIONS
Eligible == {f \in Names : is_allowed_extension(f)}

\* SHA-256 of a file's bytes; a file's bytes are stood for by their length.
compute_file_hash(bytes) == [sha256 |-> bytes]
NoHash == [sha256 |-> NoFile]
NoReq == [file_hash |-> NoHash, bytes |-> NoFile]

\* wait_for_file_stable: the verdict on the three sampled sizes
StableSizesFirstTwo(s) == Len(s) = 3 /\ s[1] = s[2] /\ s[1] > 0
StableSizes(s) == Len(s) = 3 /\ s[1] = s[2] /\ s[2] = s[3] /\ s[1] > 0

\* upload_file: `2u64.pow(attempt)` seconds before attempt 1 and 2
BackoffDelayFlat(a) == 2
BackoffDelay(a) == 2 ^ a

\* process_file: `hashes.contains(&file_hash)`
KnownHashNever(h) == FALSE
KnownHash(h) == h \in known_hashes

\* Answers to one folder-upload POST: 2xx with a valid body that says success=true
\* (duplicate or not) or success=false, 2xx with a body that does not parse, 429,
\* another status, a send() error.
UploadResponses == {"ok", "ok_duplicate", "ok_failed", "badbody", "r429", "other", "transport"}
\* upload_file returns Ok(result): `status().is_success()` and the body parses; the
\* `success` field of the body is not read.
Accepted(r) == r \in {"ok", "ok_duplicate", "ok_failed"}

PostUploadActions == {"MoveToSubfolder", "Delete", "Keep"}

\* All orders in which read_dir can hand out the entries of S.
Orderings(S) == {q \in [1..Cardinality(S) -> S] : \A i, j \in 1..Cardinality(S) : i # j => q[i] # q[j]}

\* No file is being processed.
NoFrame == [path |-> "", sizes |-> <<>>, file_hash |-> NoHash, attempt |-> 0,
            upLog |-> <<>>, slept |-> 0, req |-> NoReq]

NewStatus == [files_uploaded |-> 0, files_pending |-> 0, errors |-> 0, last_error |-> <<>>]

\* FolderWatcher::new; the directory holds `d` and its subfolder uploaded/ `u`.
FolderStart(d, u, action) ==
    /\ dir = d
    /\ uploadedDir = u
    /\ post_upload_action = action
    /\ fwPc = "top"
    /\ queue = <<>>
    /\ pending_count = 0
    /\ pf = NoFrame
    /\ known_hashes = {}
    /\ fstatus = NewStatus
    /\ cycleCounter = 0
    /\ cycles = 0
    /\ sentOnce = {}
    /\ sentMore = {}
    /\ postDone = {}
    /\ envWrites = 0
    /\ rejected = FALSE
    /\ dir0 = d

FolderIdle == FolderStart([f \in Names |-> NoFile], [f \in Names |-> NoFile], "Keep")

\* A watcher started on a directory that holds any files already; uploaded/ is empty
\* or holds the a.pdf that an earlier run with the move action has left there.
FolderInit ==
    \E d \in [Names -> {NoFile, 0, 1, MAX_FILE_SIZE + 1}], action \in PostUploadActions,
       old \in {NoFile, MaxSize + 1} :
       /\ d["n.txt"] = 1
       /\ old # NoFile => action = "MoveToSubfolder"
       /\ FolderStart(d, [f \in Names |-> IF f = "a.pdf" THEN old ELSE NoFile], action)

\* start_watching returns when process_file returns Err
FileFailedEndsLoop(e, s) ==
    /\ fstatus' = [fstatus EXCEPT !.errors = @ + 1, !.last_error = <<pf.path, e>>]
    /\ pf' = [NoFrame EXCEPT !.path = pf.path, !.sizes = s]
    /\ fwPc' = "returned"

\* process_file returns Err(e) with the samples `s` taken: start_watching adds 1 to
\* errors and sets last_error to "<file name>: <e>".  Of the frame only the path and
\* the samples are kept for inspection.
FileFailed(e, s) ==
    /\ fstatus' = [fstatus EXCEPT !.errors = @ + 1, !.last_error = <<pf.path, e>>]
    /\ pf' = [NoFrame EXCEPT !.path = pf.path, !.sizes = s]
    /\ fwPc' = "next"

\* Loop top and read_dir: the entries that pass the filters of the loop body, in
\* any order (the other entries are skipped without effect).
FwReadDir ==
    /\ fwPc = "top"
    /\ cycles < MaxCycles
    /\ \E q \in Orderings({f \in Names : dir[f] # NoFile /\ is_allowed_extension(f)}) :
         queue' = q
    /\ pending_count' = 0
    /\ fwPc' = "next"
    /\ UNCHANGED <<dir, uploadedDir, post_upload_action, pf, known_hashes, fstatus,
                   cycleCounter, cycles, sentOnce, sentMore, postDone, envWrites,
                   rejected, dir0>>
    /\ UNCHANGED nonFolderVars

\* next_entry and the filters on it; a file that passes is counted and handed to
\* process_file.
FwNextEntry ==
    /\ fwPc = "next"
    /\ queue # <<>>
    /\ queue' = Tail(queue)
    /\ IF dir[Head(queue)] # NoFile /\ is_allowed_extension(Head(queue))
         THEN /\ pending_count' = pending_count + 1
              /\ pf' = [NoFrame EXCEPT !.path = Head(queue)]
              /\ fwPc' = "gate"
         ELSE /\ pf' = NoFrame
              /\ UNCHANGED <<pending_count, fwPc>>
    /\ UNCHANGED <<dir, uploadedDir, post_upload_action, known_hashes, fstatus,
                   cycleCounter, cycles, sentOnce, sentMore, postDone, envWrites,
                   rejected, dir0>>
    /\ UNCHANGED nonFolderVars

\* process_file: `metadata.len() > MAX_FILE_SIZE`
TooLargeNever(len) == FALSE
TooLarge(len) == len > MAX_FILE_SIZE

\* process_file: metadata and the size limit.
FwSizeGate ==
    /\ fwPc = "gate"
    /\ IF dir[pf.path] = NoFile \/ TooLarge(dir[pf.path])
         THEN FileFailed(IF dir[pf.path] = NoFile THEN "io" ELSE "Datei zu gross", <<>>)
         ELSE fwPc' = "stable" /\ UNCHANGED <<fstatus, pf>>
    /\ UNCHANGED <<dir, uploadedDir, post_upload_action, queue, pending_count,
                   known_hashes, cycleCounter, cycles, sentOnce, sentMore, postDone,
                   envWrites, rejected, dir0>>
    /\ UNCHANGED nonFolderVars

\* wait_for_file_stable: one metadata read and the 1.5 s sleep after it; after the
\* third the verdict.
FwSample ==
    /\ fwPc = "stable"
    /\ IF dir[pf.path] = NoFile
         THEN FileFailed("Datei nicht stabil", pf.sizes)
         ELSE LET s == Append(pf.sizes, dir[pf.path]) IN
              IF Len(s) = 3 /\ ~StableSizes(s)
                THEN FileFailed("Datei nicht stabil", s)
                ELSE /\ pf' = [pf EXCEPT !.sizes = s]
                     /\ fwPc' = IF Len(s) = 3 THEN "hash" ELSE "stable"
                     /\ UNCHANGED fstatus
    /\ UNCHANGED <<dir, uploadedDir, post_upload_action, queue, pending_count,
                   known_hashes, cycleCounter, cycles, sentOnce, sentMore, postDone,
                   envWrites, rejected, dir0>>
    /\ UNCHANGED nonFolderVars

\* compute_file_hash, the lookup in known_hashes, and upload_file's first read.
FwHash ==
    /\ fwPc = "hash"
    /\ IF dir[pf.path] = NoFile
         THEN FileFailed("io", pf.sizes)
         ELSE /\ pf' = [pf EXCEPT !.file_hash = compute_file_hash(dir[pf.path])]
              /\ fwPc' = IF KnownHash(pf'.file_hash) THEN "post" ELSE "upload"
              /\ UNCHANGED fstatus
    /\ UNCHANGED <<dir, uploadedDir, post_upload_action, queue, pending_count,
                   known_hashes, cycleCounter, cycles, sentOnce, sentMore, postDone,
                   envWrites, rejected, dir0>>
    /\ UNCHANGED nonFolderVars

\* upload_file: one pass of the retry loop: the backoff sleep, the re-read of the
\* file, the POST and the handling of its answer; on Ok the rest of process_file up
\* to the post-upload action.
FwUpload ==
    /\ fwPc = "upload"
    /\ IF dir[pf.path] = NoFile
         THEN FileFailed("io", pf.sizes) /\ UNCHANGED <<known_hashes, sentOnce, sentMore, rejected>>
         ELSE \E r \in UploadResponses :
              LET pause == IF pf.attempt > 0 THEN BackoffDelay(pf.attempt) ELSE 0
                  again == ~Accepted(r) /\ r # "badbody" /\ pf.attempt + 1 < MaxUploadAttempts
                  frame == [pf EXCEPT !.req = [file_hash |-> pf.file_hash, bytes |-> dir[pf.path]],
                                      !.upLog = Append(@, r),
                                      !.slept = @ + pause + (IF r = "r429" THEN RateLimitSleep ELSE 0),
                                      !.attempt = IF again THEN @ + 1 ELSE @]
              IN
              /\ sentOnce' = sentOnce \cup {pf.file_hash}
              /\ sentMore' = IF pf.file_hash \in sentOnce THEN sentMore \cup {pf.file_hash}
                                                           ELSE sentMore
              /\ rejected' = (rejected \/ r \notin {"ok", "ok_duplicate"})
              /\ IF Accepted(r)
                   THEN /\ known_hashes' = known_hashes \cup {pf.file_hash}
                        /\ fstatus' = [fstatus EXCEPT !.files_uploaded = @ + 1]
                        /\ pf' = frame
                        /\ fwPc' = "post"
                 ELSE IF again
                   THEN pf' = frame /\ UNCHANGED <<fwPc, fstatus, known_hashes>>
                 ELSE FileFailed("Upload fehlgeschlagen", pf.sizes) /\ UNCHANGED known_hashes
    /\ UNCHANGED <<dir, uploadedDir, post_upload_action, queue, pending_count,
                   cycleCounter, cycles, postDone, envWrites, dir0>>
    /\ UNCHANGED nonFolderVars

\* post_upload_action, after an upload or for a file whose hash is known.
\* MoveToSubfolder is create_dir_all and a rename to uploaded/<file name>: a rename
\* replaces a file that is at its destination.
FwPostAction ==
    /\ fwPc = "post"
    /\ IF post_upload_action # "Keep" /\ dir[pf.path] = NoFile
         THEN FileFailed("io", pf.sizes) /\ UNCHANGED <<dir, uploadedDir, postDone>>
         ELSE /\ fwPc' = "next"
              /\ postDone' = postDone \cup {pf.path}
              /\ pf' = NoFrame
              /\ UNCHANGED fstatus
              /\ CASE post_upload_action = "MoveToSubfolder" ->
                        /\ uploadedDir' = [uploadedDir EXCEPT ![pf.path] = dir[pf.path]]
                        /\ dir' = [dir EXCEPT ![pf.path] = NoFile]
                   [] post_upload_action = "Delete" ->
                        /\ dir' = [dir EXCEPT ![pf.path] = NoFile]
                        /\ UNCHANGED uploadedDir
                   [] OTHER -> UNCHANGED <<dir, uploadedDir>>
    /\ UNCHANGED <<post_upload_action, queue, pending_count, known_hashes,
                   cycleCounter, cycles, sentOnce, sentMore, envWrites, rejected, dir0>>
    /\ UNCHANGED nonFolderVars

\* End of the cycle: files_pending, CYCLE_COUNTER.fetch_add(1) with the status
\* report every sixth cycle, and the 5 s sleep.
FwEndCycle ==
    /\ fwPc = "next"
    /\ queue = <<>>
    /\ fstatus' = [fstatus EXCEPT !.files_pending = pending_count]
    /\ cycleCounter' = (cycleCounter + 1) % TelemetryEvery
    /\ cycles' = cycles + 1
    /\ fwPc' = "top"
    /\ pf' = NoFrame
    /\ UNCHANGED <<dir, uploadedDir, post_upload_action, queue, pending_count,
                   known_hashes, sentOnce, sentMore, postDone, envWrites, rejected, dir0>>
    /\ UNCHANGED nonFolderVars

\* Another process appends to a file of the directory.
EnvWrite ==
    /\ envWrites < MaxEnvWrites
    /\ \E f \in Eligible :
         /\ dir[f] # NoFile
         /\ dir[f] < MaxSize
         /\ dir' = [dir EXCEPT ![f] = dir[f] + 1]
    /\ envWrites' = envWrites + 1
    /\ UNCHANGED <<uploadedDir, post_upload_action, fwPc, queue, pending_count, pf,
                   known_hashes, fstatus, cycleCounter, cycles, sentOnce, sentMore,
                   postDone, rejected, dir0>>
    /\ UNCHANGED nonFolderVars

\* Loop top and read_dir returns Err: last_error and errors are set, then the end
\* of the cycle: CYCLE_COUNTER.fetch_add(1) and the 5 s sleep.  files_pending is left
\* as it is.
FwReadDirFailed ==
    /\ fwPc = "top"
    /\ cycles < MaxCycles
    /\ fstatus' = [fstatus EXCEPT !.errors = @ + 1, !.last_error = <<"", "Ordner nicht lesbar">>]
    /\ cycleCounter' = (cycleCounter + 1) % TelemetryEvery
    /\ cycles' = cycles + 1
    /\ UNCHANGED <<dir, uploadedDir, post_upload_action, fwPc, queue, pending_count, pf,
                   known_hashes, sentOnce, sentMore, postDone, envWrites, rejected, dir0>>
    /\ UNCHANGED nonFolderVars

\* The steps of a watcher whose directory stays readable.
FolderNext ==
    \/ FwReadDir
    \/ FwNextEntry
    \/ FwSizeGate
    \/ FwSample
    \/ FwHash
    \/ FwUpload
    \/ FwPostAction
    \/ FwEndCycle
    \/ EnvWrite

(***************************************************************************)
(* main.rs, scan_poller.rs, folder_watcher.rs: the agent lifecycle         *)
(***************************************************************************)
PollerIds == 1..MaxPollers
WatcherIds == 1..MaxWatchers
Commands == {"pair", "disconnect", "configure", "stop_folder_sync", "discover_scanners",
             "boot"}

\* AppState::default
NewBridgeStatus == [connected |-> FALSE, docflow_url |-> FALSE, scanner_count |-> 0,
                    last_discovery |-> FALSE, poller_active |-> FALSE,
                    jobs_processed |-> 0, folder_sync_active |-> FALSE,
                    folder_sync_path |-> FALSE]

\* ScanPoller::new / FolderWatcher::new and tokio::spawn of its loop: the task has
\* not run yet, running is false.  stopCalled records that stop() was called on
\* the instance.
NewTask == [pc |-> "spawned", running |-> FALSE, stopCalled |-> FALSE]
NoTask == [pc |-> "none", running |-> FALSE, stopCalled |-> FALSE]

\* The instances that can stand for a new Arc: those never created.
Free(tasks) == {i \in DOMAIN tasks : tasks[i].pc = "none"}
Fresh(tasks) == CHOOSE i \in Free(tasks) : \A j \in Free(tasks) : i <= j

\* The positions at which a task is inside its loop.
PollerLoopPcs == {"top", "poll", "job"}
WatcherLoopPcs == {"top", "cycle", "report"}

\* report_status_to_server holds status.read() while its POST is in flight.
StatusReadHeld(w) == watchers[w].pc \in {"report", "final"}

\* The commands that hold folder_watcher.read() around `watcher.stop().await`.
FwReaders == {c \in Commands : cmdPc[c] = "stopping"}

\* The shell invokes command c.
Invoke(c) ==
    /\ cmdPc[c] = "idle"
    /\ cmds < MaxCmds
    /\ cmds' = cmds + 1
    /\ overlap' = (overlap \/ \E d \in Commands \ {c} : cmdPc[d] \notin {"idle", "done"})
Goto(c, l) == cmdPc' = [cmdPc EXCEPT ![c] = l]

\* get_status: a clone of bridge_status
get_status == status

AgentStart(v) ==
    /\ status = NewBridgeStatus
    /\ api_key = FALSE
    /\ poller = 0
    /\ folder_watcher = 0
    /\ vault = v
    /\ pollers = [p \in PollerIds |-> NoTask]
    /\ watchers = [w \in WatcherIds |-> NoTask]
    /\ cmdPc = [c \in Commands |-> IF c = "boot" THEN "start" ELSE "idle"]
    /\ cfgKey = FALSE
    /\ discFinal = FALSE
    /\ cmds = 0
    /\ overlap = FALSE

EmptyVault == [api_key |-> FALSE, docflow_url |-> FALSE, folder_sync_config |-> "none"]
AgentIdle == AgentStart(EmptyVault)

\* The process starts with whatever an earlier run left in the keyring.
AgentInit ==
    \E k, u \in BOOLEAN, c \in {"none", "enabled", "disabled"} :
       AgentStart([api_key |-> k, docflow_url |-> u, folder_sync_config |-> c])

(* ---- ScanPoller: start_polling and stop ---- *)
\* ScanPoller::stop
PollerStopped(p) == [pollers EXCEPT ![p].running = FALSE, ![p].stopCalled = TRUE]

\* start_polling, before the loop: status.running = true
PollerStart(p) ==
    /\ pollers[p].pc = "spawned"
    /\ pollers' = [pollers EXCEPT ![p].pc = "top", ![p].running = TRUE]
    /\ UNCHANGED <<status, api_key, poller, folder_watcher, vault, watchers, cmdPc,
                   cfgKey, discFinal, cycleCounter, cmds, overlap>>
    /\ UNCHANGED nonAgentVars

\* Loop top: `if !status.running { break; }`
PollerCheck(p) ==
    /\ pollers[p].pc = "top"
    /\ pollers' = [pollers EXCEPT ![p].pc = IF pollers[p].running THEN "poll" ELSE "exited"]
    /\ UNCHANGED <<status, api_key, poller, folder_watcher, vault, watchers, cmdPc,
                   cfgKey, discFinal, cycleCounter, cmds, overlap>>
    /\ UNCHANGED nonAgentVars

\* poll_pending_jobs: GET pending-scans; a job, no job, or an error; without a job
\* the 2 s sleep follows
PollerPoll(p) ==
    /\ pollers[p].pc = "poll"
    /\ \E r \in {"job", "empty", "error"} :
         pollers' = [pollers EXCEPT ![p].pc = IF r = "job" THEN "job" ELSE "top"]
    /\ UNCHANGED <<status, api_key, poller, folder_watcher, vault, watchers, cmdPc,
                   cfgKey, discFinal, cycleCounter, cmds, overlap>>
    /\ UNCHANGED nonAgentVars

\* One job: execute_scan_job (the requests to the scanner), then upload_scan_result
\* or report_error, and the 2 s sleep
PollerJob(p) ==
    /\ pollers[p].pc = "job"
    /\ pollers' = [pollers EXCEPT ![p].pc = "top"]
    /\ UNCHANGED <<status, api_key, poller, folder_watcher, vault, watchers, cmdPc,
                   cfgKey, discFinal, cycleCounter, cmds, overlap>>
    /\ UNCHANGED nonAgentVars

(* ---- FolderWatcher: start_watching and stop ---- *)
\* FolderWatcher::stop up to the point where its POST is sent: status.write(),
\* running = false
WatcherStopped(w) == [watchers EXCEPT ![w].running = FALSE, ![w].stopCalled = TRUE]

\* `{ let l = folder_watcher.read().await; if let Some(w) = l.as_ref() { w.stop().await } }`
\* in command c: with a watcher, stop() runs until its POST is in flight; without,
\* the command goes on at `next`.
StopWatcherBegin(c, next) ==
    IF folder_watcher = 0
      THEN Goto(c, next) /\ UNCHANGED watchers
      ELSE /\ ~StatusReadHeld(folder_watcher)
           /\ watchers' = WatcherStopped(folder_watcher)
           /\ Goto(c, "stopping")

\* start_watching, before the loop: the early return when the directory is gone,
\* else status.running = true
WatcherStart(w) ==
    /\ watchers[w].pc = "spawned"
    /\ \E exists \in BOOLEAN :
         watchers' = IF exists
                       THEN [watchers EXCEPT ![w].pc = "top", ![w].running = TRUE]
                       ELSE [watchers EXCEPT ![w].pc = "exited"]
    /\ UNCHANGED <<status, api_key, poller, folder_watcher, vault, pollers, cmdPc,
                   cfgKey, discFinal, cycleCounter, cmds, overlap>>
    /\ UNCHANGED nonAgentVars

\* Loop top: `if !status.running { break; }`; after the break the last
\* report_status_to_server is sent.
WatcherCheck(w) ==
    /\ watchers[w].pc = "top"
    /\ watchers' = [watchers EXCEPT ![w].pc = IF watchers[w].running THEN "cycle" ELSE "final"]
    /\ UNCHANGED <<status, api_key, poller, folder_watcher, vault, pollers, cmdPc,
                   cfgKey, discFinal, cycleCounter, cmds, overlap>>
    /\ UNCHANGED nonAgentVars

\* read_dir and process_file for every entry (the folder-upload requests), then
\* CYCLE_COUNTER.fetch_add(1) and `if cycle % 6 == 0`: the periodic report is sent,
\* else the 5 s sleep follows
WatcherCycle(w) ==
    /\ watchers[w].pc = "cycle"
    /\ cycleCounter' = (cycleCounter + 1) % TelemetryEvery
    /\ watchers' = [watchers EXCEPT ![w].pc = IF cycleCounter % TelemetryEvery = 0
                                                THEN "report" ELSE "top"]
    /\ UNCHANGED <<status, api_key, poller, folder_watcher, vault, pollers, cmdPc,
                   cfgKey, discFinal, cmds, overlap>>
    /\ UNCHANGED nonAgentVars

\* report_status_to_server: `"folder_sync_enabled": config.enabled`.  The config of
\* watcher w is the one it was built with, configure_folder_sync builds it with
\* enabled: true and the boot task starts a watcher only from a stored config whose
\* enabled is true.
ConfigEnabled(w) == TRUE

\* The periodic report is answered (or times out), the read guards are dropped,
\* and the 5 s sleep follows.
WatcherReport(w) ==
    /\ watchers[w].pc = "report"
    /\ watchers' = [watchers EXCEPT ![w].pc = "top"]
    /\ UNCHANGED <<status, api_key, poller, folder_watcher, vault, pollers, cmdPc,
                   cfgKey, discFinal, cycleCounter, cmds, overlap>>
    /\ UNCHANGED nonAgentVars

\* The last report is answered; start_watching returns.
WatcherFinal(w) ==
    /\ watchers[w].pc = "final"
    /\ watchers' = [watchers EXCEPT ![w].pc = "exited"]
    /\ UNCHANGED <<status, api_key, poller, folder_watcher, vault, pollers, cmdPc,
                   cfgKey, discFinal, cycleCounter, cmds, overlap>>
    /\ UNCHANGED nonAgentVars

(* ---- pair_with_docflow ---- *)
\* The command is invoked; pairing::pair sends its registration request.
PairBegin ==
    /\ Invoke("pair")
    /\ Goto("pair", "call")
    /\ discFinal' = FALSE
    /\ UNCHANGED <<status, api_key, poller, folder_watcher, vault, pollers, watchers,
                   cfgKey, cycleCounter>>
    /\ UNCHANGED nonAgentVars

\* pairing::pair returns: Err (the command returns it), or Ok after storing the
\* API key and the URL in the keyring.
PairCall ==
    /\ cmdPc["pair"] = "call"
    /\ \E ok \in BOOLEAN :
         IF ok THEN /\ vault' = [vault EXCEPT !.api_key = TRUE, !.docflow_url = TRUE]
                    /\ Goto("pair", "status")
               ELSE /\ Goto("pair", "idle")
                    /\ UNCHANGED vault
    /\ UNCHANGED <<status, api_key, poller, folder_watcher, pollers, watchers,
                   cfgKey, discFinal, cycleCounter, cmds, overlap>>
    /\ UNCHANGED nonAgentVars

\* status.connected = true; status.docflow_url = Some(url)
PairSetStatus ==
    /\ cmdPc["pair"] = "status"
    /\ status' = [status EXCEPT !.connected = TRUE, !.docflow_url = TRUE]
    /\ Goto("pair", "key")
    /\ UNCHANGED <<api_key, poller, folder_watcher, vault, pollers, watchers,
                   cfgKey, discFinal, cycleCounter, cmds, overlap>>
    /\ UNCHANGED nonAgentVars

\* *api_key = Some(key)
PairSetKey ==
    /\ cmdPc["pair"] = "key"
    /\ api_key' = TRUE
    /\ Goto("pair", "poller")
    /\ UNCHANGED <<status, poller, folder_watcher, vault, pollers, watchers,
                   cfgKey, discFinal, cycleCounter, cmds, overlap>>
    /\ UNCHANGED nonAgentVars

\* ScanPoller::new, *poller_lock = Some(poller), tokio::spawn(start_polling)
PairStartPoller ==
    /\ cmdPc["pair"] = "poller"
    /\ Free(pollers) # {}
    /\ poller' = Fresh(pollers)
    /\ pollers' = [pollers EXCEPT ![Fresh(pollers)] = NewTask]
    /\ Goto("pair", "active")
    /\ UNCHANGED <<status, api_key, folder_watcher, vault, watchers,
                   cfgKey, discFinal, cycleCounter, cmds, overlap>>
    /\ UNCHANGED nonAgentVars

\* status.poller_active = true; Ok(true)
PairActive ==
    /\ cmdPc["pair"] = "active"
    /\ status' = [status EXCEPT !.poller_active = TRUE]
    /\ Goto("pair", "idle")
    /\ UNCHANGED <<api_key, poller, folder_watcher, vault, pollers, watchers,
                   cfgKey, discFinal, cycleCounter, cmds, overlap>>
    /\ UNCHANGED nonAgentVars

(* ---- disconnect ---- *)
\* The command is invoked: poller.read(), stop() on the poller it holds
DiscStopPoller ==
    /\ Invoke("disconnect")
    /\ pollers' = IF poller = 0 THEN pollers ELSE PollerStopped(poller)
    /\ Goto("disconnect", "pollerNone")
    /\ UNCHANGED <<status, api_key, poller, folder_watcher, vault, watchers,
                   cfgKey, discFinal, cycleCounter>>
    /\ UNCHANGED nonAgentVars

\* *poller_lock = None
DiscClearPoller ==
    /\ cmdPc["disconnect"] = "pollerNone"
    /\ poller' = 0
    /\ Goto("disconnect", "watcher")
    /\ UNCHANGED <<status, api_key, folder_watcher, vault, pollers, watchers,
                   cfgKey, discFinal, cycleCounter, cmds, overlap>>
    /\ UNCHANGED nonAgentVars

\* folder_watcher.read(), stop() on the watcher it holds
DiscStopWatcher ==
    /\ cmdPc["disconnect"] = "watcher"
    /\ StopWatcherBegin("disconnect", "watcherNone")
    /\ UNCHANGED <<status, api_key, poller, folder_watcher, vault, pollers,
                   cfgKey, discFinal, cycleCounter, cmds, overlap>>
    /\ UNCHANGED nonAgentVars

\* stop()'s POST is answered (or times out); the read guard is dropped.
DiscWatcherStopped ==
    /\ cmdPc["disconnect"] = "stopping"
    /\ Goto("disconnect", "watcherNone")
    /\ UNCHANGED <<status, api_key, poller, folder_watcher, vault, pollers, watchers,
                   cfgKey, discFinal, cycleCounter, cmds, overlap>>
    /\ UNCHANGED nonAgentVars

\* *watcher_lock = None
DiscClearWatcher ==
    /\ cmdPc["disconnect"] = "watcherNone"
    /\ FwReaders = {}
    /\ folder_watcher' = 0
    /\ Goto("disconnect", "status")
    /\ UNCHANGED <<status, api_key, poller, vault, pollers, watchers,
                   cfgKey, discFinal, cycleCounter, cmds, overlap>>
    /\ UNCHANGED nonAgentVars

\* connected, docflow_url, poller_active, folder_sync_active and folder_sync_path of
\* bridge_status are reset; its other fields are left as they are.
DiscResetStatus ==
    /\ cmdPc["disconnect"] = "status"
    /\ status' = [status EXCEPT !.connected = FALSE, !.docflow_url = FALSE,
                                !.poller_active = FALSE, !.folder_sync_active = FALSE,
                                !.folder_sync_path = FALSE]
    /\ Goto("disconnect", "key")
    /\ UNCHANGED <<api_key, poller, folder_watcher, vault, pollers, watchers,
                   cfgKey, discFinal, cycleCounter, cmds, overlap>>
    /\ UNCHANGED nonAgentVars

\* *api_key = None; the keyring's api_key is deleted; Ok(())
DiscClearKey ==
    /\ cmdPc["disconnect"] = "key"
    /\ api_key' = FALSE
    /\ vault' = [vault EXCEPT !.api_key = FALSE]
    /\ Goto("disconnect", "idle")
    /\ discFinal' = TRUE
    /\ UNCHANGED <<status, poller, folder_watcher, pollers, watchers,
                   cfgKey, cycleCounter, cmds, overlap>>
    /\ UNCHANGED nonAgentVars

(* ---- configure_folder_sync ---- *)
\* The command is invoked: api_key.read().clone()
CfgReadKey ==
    /\ Invoke("configure")
    /\ cfgKey' = api_key
    /\ Goto("configure", "readUrl")
    /\ UNCHANGED <<status, api_key, poller, folder_watcher, vault, pollers, watchers,
                   discFinal, cycleCounter>>
    /\ UNCHANGED nonAgentVars

\* configure_folder_sync without its two checks
CfgReadUrlUnchecked ==
    /\ cmdPc["configure"] = "readUrl"
    /\ Goto("configure", "watcher")
    /\ cfgKey' = FALSE
    /\ UNCHANGED <<status, api_key, poller, folder_watcher, vault, pollers, watchers,
                   discFinal, cycleCounter, cmds, overlap>>
    /\ UNCHANGED nonAgentVars

\* bridge_status.read().docflow_url.clone(); Err unless both are Some and the
\* directory exists
CfgReadUrl ==
    /\ cmdPc["configure"] = "readUrl"
    /\ \E exists \in BOOLEAN :
         Goto("configure", IF cfgKey /\ status.docflow_url /\ exists THEN "watcher" ELSE "idle")
    /\ cfgKey' = FALSE
    /\ UNCHANGED <<status, api_key, poller, folder_watcher, vault, pollers, watchers,
                   discFinal, cycleCounter, cmds, overlap>>
    /\ UNCHANGED nonAgentVars

\* folder_watcher.read(), stop() on the watcher it holds
CfgStopWatcher ==
    /\ cmdPc["configure"] = "watcher"
    /\ StopWatcherBegin("configure", "vault")
    /\ UNCHANGED <<status, api_key, poller, folder_watcher, vault, pollers,
                   cfgKey, discFinal, cycleCounter, cmds, overlap>>
    /\ UNCHANGED nonAgentVars

\* stop()'s POST is answered (or times out); the read guard is dropped.
CfgWatcherStopped ==
    /\ cmdPc["configure"] = "stopping"
    /\ Goto("configure", "vault")
    /\ UNCHANGED <<status, api_key, poller, folder_watcher, vault, pollers, watchers,
                   cfgKey, discFinal, cycleCounter, cmds, overlap>>
    /\ UNCHANGED nonAgentVars

\* The config, enabled, is stored in the keyring.
CfgVault ==
    /\ cmdPc["configure"] = "vault"
    /\ vault' = [vault EXCEPT !.folder_sync_config = "enabled"]
    /\ Goto("configure", "install")
    /\ UNCHANGED <<status, api_key, poller, folder_watcher, pollers, watchers,
                   cfgKey, discFinal, cycleCounter, cmds, overlap>>
    /\ UNCHANGED nonAgentVars

\* FolderWatcher::new, *watcher_lock = Some(watcher), tokio::spawn(start_watching)
CfgInstall ==
    /\ cmdPc["configure"] = "install"
    /\ FwReaders = {}
    /\ Free(watchers) # {}
    /\ folder_watcher' = Fresh(watchers)
    /\ watchers' = [watchers EXCEPT ![Fresh(watchers)] = NewTask]
    /\ Goto("configure", "active")
    /\ UNCHANGED <<status, api_key, poller, vault, pollers,
                   cfgKey, discFinal, cycleCounter, cmds, overlap>>
    /\ UNCHANGED nonAgentVars

\* status.folder_sync_active = true; status.folder_sync_path = Some(path); Ok(true)
CfgActive ==
    /\ cmdPc["configure"] = "active"
    /\ status' = [status EXCEPT !.folder_sync_active = TRUE, !.folder_sync_path = TRUE]
    /\ Goto("configure", "idle")
    /\ UNCHANGED <<api_key, poller, folder_watcher, vault, pollers, watchers,
                   cfgKey, discFinal, cycleCounter, cmds, overlap>>
    /\ UNCHANGED nonAgentVars

(* ---- stop_folder_sync ---- *)
\* The command is invoked: folder_watcher.read(), stop() on the watcher it holds
SfsStopWatcher ==
    /\ Invoke("stop_folder_sync")
    /\ StopWatcherBegin("stop_folder_sync", "watcherNone")
    /\ UNCHANGED <<status, api_key, poller, folder_watcher, vault, pollers,
                   cfgKey, discFinal, cycleCounter>>
    /\ UNCHANGED nonAgentVars

\* stop()'s POST is answered (or times out); the read guard is dropped.
SfsWatcherStopped ==
    /\ cmdPc["stop_folder_sync"] = "stopping"
    /\ Goto("stop_folder_sync", "watcherNone")
    /\ UNCHANGED <<status, api_key, poller, folder_watcher, vault, pollers, watchers,
                   cfgKey, discFinal, cycleCounter, cmds, overlap>>
    /\ UNCHANGED nonAgentVars

\* *watcher_lock = None, then the stored config, if there is one, is disabled.
SfsClearWatcher ==
    /\ cmdPc["stop_folder_sync"] = "watcherNone"
    /\ FwReaders = {}
    /\ folder_watcher' = 0
    /\ vault' = [vault EXCEPT !.folder_sync_config = IF @ = "none" THEN "none" ELSE "disabled"]
    /\ Goto("stop_folder_sync", "status")
    /\ UNCHANGED <<status, api_key, poller, pollers, watchers,
                   cfgKey, discFinal, cycleCounter, cmds, overlap>>
    /\ UNCHANGED nonAgentVars

\* status.folder_sync_active = false; status.folder_sync_path = None; Ok(())
SfsStatus ==
    /\ cmdPc["stop_folder_sync"] = "status"
    /\ status' = [status EXCEPT !.folder_sync_active = FALSE, !.folder_sync_path = FALSE]
    /\ Goto("stop_folder_sync", "idle")
    /\ UNCHANGED <<api_key, poller, folder_watcher, vault, pollers, watchers,
                   cfgKey, discFinal, cycleCounter, cmds, overlap>>
    /\ UNCHANGED nonAgentVars

(* ---- discover_scanners ---- *)
\* The command, from discover_all's Ok to its return: status.scanner_count is the
\* number of scanners found (none or some), status.last_discovery = Some(now).
DiscoverScanners ==
    /\ Invoke("discover_scanners")
    /\ \E n \in {0, 1} :
         status' = [status EXCEPT !.scanner_count = n, !.last_discovery = TRUE]
    /\ UNCHANGED <<api_key, poller, folder_watcher, vault, pollers, watchers, cmdPc,
                   cfgKey, discFinal, cycleCounter>>
    /\ UNCHANGED nonAgentVars

(* ---- the boot task of main ---- *)
\* The keyring's api_key and docflow_url are read; with both, *api_key = Some(key).
BootRead ==
    /\ cmdPc["boot"] = "start"
    /\ IF vault.api_key /\ vault.docflow_url
         THEN api_key' = TRUE /\ Goto("boot", "status")
         ELSE Goto("boot", "done") /\ UNCHANGED api_key
    /\ UNCHANGED <<status, poller, folder_watcher, vault, pollers, watchers,
                   cfgKey, discFinal, cycleCounter, cmds, overlap>>
    /\ UNCHANGED nonAgentVars

\* status.connected = true; status.docflow_url = Some(url)
BootSetStatus ==
    /\ cmdPc["boot"] = "status"
    /\ status' = [status EXCEPT !.connected = TRUE, !.docflow_url = TRUE]
    /\ Goto("boot", "poller")
    /\ UNCHANGED <<api_key, poller, folder_watcher, vault, pollers, watchers,
                   cfgKey, discFinal, cycleCounter, cmds, overlap>>
    /\ UNCHANGED nonAgentVars

\* ScanPoller::new, *poller_lock = Some(poller), tokio::spawn(start_polling)
BootStartPoller ==
    /\ cmdPc["boot"] = "poller"
    /\ Free(pollers) # {}
    /\ poller' = Fresh(pollers)
    /\ pollers' = [pollers EXCEPT ![Fresh(pollers)] = NewTask]
    /\ Goto("boot", "active")
    /\ UNCHANGED <<status, api_key, folder_watcher, vault, watchers,
                   cfgKey, discFinal, cycleCounter, cmds, overlap>>
    /\ UNCHANGED nonAgentVars

\* status.poller_active = true, then the stored folder config is read: the task
\* goes on with it when it is enabled and its directory exists.
BootActive ==
    /\ cmdPc["boot"] = "active"
    /\ status' = [status EXCEPT !.poller_active = TRUE]
    /\ \E exists \in BOOLEAN :
         Goto("boot", IF vault.folder_sync_config = "enabled" /\ exists THEN "watcher" ELSE "done")
    /\ UNCHANGED <<api_key, poller, folder_watcher, vault, pollers, watchers,
                   cfgKey, discFinal, cycleCounter, cmds, overlap>>
    /\ UNCHANGED nonAgentVars

\* FolderWatcher::new, *watcher_lock = Some(watcher), tokio::spawn(start_watching)
BootStartWatcher ==
    /\ cmdPc["boot"] = "watcher"
    /\ FwReaders = {}
    /\ Free(watchers) # {}
    /\ folder_watcher' = Fresh(watchers)
    /\ watchers' = [watchers EXCEPT ![Fresh(watchers)] = NewTask]
    /\ Goto("boot", "fsActive")
    /\ UNCHANGED <<status, api_key, poller, vault, pollers,
                   cfgKey, discFinal, cycleCounter, cmds, overlap>>
    /\ UNCHANGED nonAgentVars

\* status.folder_sync_active = true; status.folder_sync_path = Some(path)
BootFsActive ==
    /\ cmdPc["boot"] = "fsActive"
    /\ status' = [status EXCEPT !.folder_sync_active = TRUE, !.folder_sync_path = TRUE]
    /\ Goto("boot", "done")
    /\ UNCHANGED <<api_key, poller, folder_watcher, vault, pollers, watchers,
                   cfgKey, discFinal, cycleCounter, cmds, overlap>>
    /\ UNCHANGED nonAgentVars

Next ==
    \/ \E p \in PollerIds : PollerStart(p)
    \/ \E p \in PollerIds : PollerCheck(p)
    \/ \E p \in PollerIds : PollerPoll(p)
    \/ \E p \in PollerIds : PollerJob(p)
    \/ \E w \in WatcherIds : WatcherStart(w)
    \/ \E w \in WatcherIds : WatcherCheck(w)
    \/ \E w \in WatcherIds : WatcherCycle(w)
    \/ \E w \in WatcherIds : WatcherReport(w)
    \/ \E w \in WatcherIds : WatcherFinal(w)
    \/ PairBegin \/ PairCall \/ PairSetStatus \/ PairSetKey \/ PairStartPoller \/ PairActive
    \/ DiscStopPoller \/ DiscClearPoller \/ DiscStopWatcher \/ DiscWatcherStopped
    \/ DiscClearWatcher \/ DiscResetStatus \/ DiscClearKey
    \/ CfgReadKey \/ CfgReadUrl \/ CfgStopWatcher \/ CfgWatcherStopped \/ CfgVault
    \/ CfgInstall \/ CfgActive
    \/ SfsStopWatcher \/ SfsWatcherStopped \/ SfsClearWatcher \/ SfsStatus
    \/ DiscoverScanners
    \/ BootRead \/ BootSetStatus \/ BootStartPoller \/ BootActive \/ BootStartWatcher
    \/ BootFsActive

(***************************************************************************)
(* scan_poller.rs: the jobs of one ScanPoller                              *)
(***************************************************************************)
ScannerIds == {"s-1", "ghost"}
JobIds == {"j-7", "j-8"}
NoJob == [n |-> 0, job_id |-> "", scanner_id |-> "", err |-> <<>>]

\* PollerStatus of ScanPoller::new ("" stands for None)
NewPollerStatus == [jobs_processed |-> 0, last_error |-> "", last_poll |-> 0]

\* The `jobs` arrays a pending-scans answer can carry: up to MaxJobs commands with
\* distinct job ids, each for any scanner id.
JobLists ==
    UNION {{q \in [1..len -> [job_id : JobIds, scanner_id : ScannerIds]] :
               \A i, j \in 1..len : i # j => q[i].job_id # q[j].job_id} : len \in 0..MaxJobs}

\* Answers to GET pending-scans: 2xx with a jobs array, 2xx with a body that does
\* not parse, 401, another status, a send() error.
PollAnswers == {"ok", "badbody", "s401", "s500", "transport"}
PollError(a) ==
    CASE a = "s401" -> "Polling fehlgeschlagen: 401"
      [] a = "s500" -> "Polling fehlgeschlagen: 500"
      [] a = "badbody" -> "json"
      [] OTHER -> "transport"

\* What execute_scan_job gets from the scan once the scanner is found: pages, an
\* empty page list, an Err of scan_escl_with_tls, a page that is not base64.
ScanOutcomes == {"pages", "zero_pages", "escl_error", "decode_error"}
ScanError(o) ==
    CASE o = "zero_pages" -> "Keine Seiten gescannt"
      [] o = "escl_error" -> "eSCL"
      [] OTHER -> "base64"

\* Answers to a POST scan-upload: 2xx, another status, a send() error.
UploadAnswers == {"s2xx", "non2xx", "transport"}

\* upload_scan_result returns Ok
UploadOkAny(a) == a # "transport"
UploadOk(a) == a = "s2xx"

\* execute_scan_job: `scanners.iter().find(|s| s.id == job.scanner_id)` finds one
ScannerKnownAlways(id) == TRUE
ScannerKnown(id) == id \in scanners

\* `for job in jobs`: the command taken next from what is left of the array
NextJobLast(q) == q[Len(q)]
NextJob(q) == Head(q)
RestJobs(q) == LET i == CHOOSE k \in 1..Len(q) : q[k] = NextJob(q)
               IN  SubSeq(q, 1, i - 1) \o SubSeq(q, i + 1, Len(q))

PollerTaskStart(reg) ==
    /\ scanners = reg
    /\ plPc = "poll"
    /\ plJobs = <<>>
    /\ plJob = NoJob
    /\ plStatus = NewPollerStatus
    /\ plLog = <<>>
    /\ plPolls = 0

PollerTaskIdle == PollerTaskStart({})

\* A poller whose loop has started, with any registry the last discovery left.
PollerTaskInit == \E reg \in SUBSET {"s-1"} : PollerTaskStart(reg)

\* poll_pending_jobs and the handling of its result in start_polling
PlPoll ==
    /\ plPc = "poll"
    /\ plPolls < MaxPolls
    /\ plPolls' = plPolls + 1
    /\ \E a \in PollAnswers :
         IF a = "ok"
           THEN \E q \in JobLists :
                  /\ plJobs' = [i \in 1..Len(q) |->
                                  [n |-> i, job_id |-> q[i].job_id,
                                   scanner_id |-> q[i].scanner_id, err |-> <<>>]]
                  /\ plStatus' = [plStatus EXCEPT !.last_poll = plPolls + 1, !.last_error = ""]
                  /\ plPc' = "next"
           ELSE /\ plStatus' = [plStatus EXCEPT !.last_error = PollError(a)]
                /\ plPc' = "sleep"
                /\ UNCHANGED plJobs
    /\ UNCHANGED <<scanners, plJob, plLog>>
    /\ UNCHANGED nonPollVars

\* `for job in jobs`: the next command, or the end of the array
PlNextJob ==
    /\ plPc = "next"
    /\ IF plJobs = <<>>
         THEN plPc' = "sleep" /\ plJob' = NoJob /\ UNCHANGED plJobs
         ELSE /\ plJob' = NextJob(plJobs)
              /\ plJobs' = RestJobs(plJobs)
              /\ plPc' = "execute"
    /\ UNCHANGED <<scanners, plStatus, plLog, plPolls>>
    /\ UNCHANGED nonPollVars

\* execute_scan_job: the lookup in the registry, then the scan
PlExecute ==
    /\ plPc = "execute"
    /\ IF ~ScannerKnown(plJob.scanner_id)
         THEN /\ plJob' = [plJob EXCEPT !.err = <<"Scanner nicht gefunden", plJob.scanner_id>>]
              /\ plPc' = "report"
              /\ UNCHANGED plLog
         ELSE \E o \in ScanOutcomes :
                /\ plLog' = Append(plLog, [cycle |-> plPolls, n |-> plJob.n,
                                            job_id |-> plJob.job_id,
                                            scanner_id |-> plJob.scanner_id, kind |-> "scanner",
                                            answer |-> o, error_message |-> <<>>])
                /\ IF o = "pages"
                     THEN plPc' = "upload" /\ UNCHANGED plJob
                     ELSE /\ plJob' = [plJob EXCEPT !.err = <<ScanError(o)>>]
                          /\ plPc' = "report"
    /\ UNCHANGED <<scanners, plJobs, plStatus, plPolls>>
    /\ UNCHANGED nonPollVars

\* upload_scan_result (success="true") and what start_polling does with its result
PlUpload ==
    /\ plPc = "upload"
    /\ \E a \in UploadAnswers :
         /\ plLog' = Append(plLog, [cycle |-> plPolls, n |-> plJob.n,
                                     job_id |-> plJob.job_id,
                                     scanner_id |-> plJob.scanner_id, kind |-> "upload",
                                     answer |-> a, error_message |-> <<>>])
         /\ IF UploadOk(a)
              THEN /\ plStatus' = [plStatus EXCEPT !.jobs_processed = @ + 1]
                   /\ plPc' = "next"
                   /\ UNCHANGED plJob
              ELSE /\ plJob' = [plJob EXCEPT !.err = <<"Upload fehlgeschlagen">>]
                   /\ plPc' = "report"
                   /\ UNCHANGED plStatus
    /\ UNCHANGED <<scanners, plJobs, plPolls>>
    /\ UNCHANGED nonPollVars

\* PlReport, but nothing is sent.
PlReportNothing ==
    /\ plPc = "report"
    /\ plPc' = "next"
    /\ UNCHANGED <<scanners, plJobs, plJob, plStatus, plLog, plPolls>>
    /\ UNCHANGED nonPollVars

\* report_error (success="false", error_message): its own errors are swallowed
PlReport ==
    /\ plPc = "report"
    /\ \E a \in UploadAnswers :
         plLog' = Append(plLog, [cycle |-> plPolls, n |-> plJob.n,
                                  job_id |-> plJob.job_id,
                                  scanner_id |-> plJob.scanner_id, kind |-> "report",
                                  answer |-> a, error_message |-> plJob.err])
    /\ plPc' = "next"
    /\ UNCHANGED <<scanners, plJobs, plJob, plStatus, plPolls>>
    /\ UNCHANGED nonPollVars

\* The 2 s sleep, then the loop top
PlSleep ==
    /\ plPc = "sleep"
    /\ plPc' = "poll"
    /\ UNCHANGED <<scanners, plJobs, plJob, plStatus, plLog, plPolls>>
    /\ UNCHANGED nonPollVars

PollerNext ==
    \/ PlPoll
    \/ PlNextJob
    \/ PlExecute
    \/ PlUpload
    \/ PlReport
    \/ PlSleep

(***************************************************************************)
(* discovery.rs: discover_all and discover_mdns                            *)
(***************************************************************************)
\* `_uscan._tcp.local.`, `_uscans._tcp.local.`, `_scanner._tcp.local.`, in the
\* order in which discover_mdns browses them
MDNS_SERVICE_TYPES == <<"_uscan", "_uscans", "_scanner">>
\* `service_type.starts_with("_uscan")`
IsEscl(t) == t \in {"_uscan", "_uscans"}
IsEsclTls(t) == t = "_uscans"

Ips == {"192.168.1.5", "192.168.1.6", "FE80::1"}
Ports == {443, 80, 8080, 631}
\* `ip.contains(':')` and `ip.to_lowercase().starts_with("fe80:")`
ContainsColon(ip) == ip \in {"FE80::1"}
IpToLowercase(ip) == IF ip = "FE80::1" THEN "fe80::1" ELSE ip
StartsWithFe80(ip) == ip \in {"fe80::1"}

\* The services an environment can resolve: a service type, the TXT uuid (""
\* when the record has none), the first address and the port.
Services == [type : {1, 2, 3}, uuid : {"u-1", ""}, ip : Ips, port : Ports]
RECURSIVE EnvironmentsUpTo(_)
EnvironmentsUpTo(n) ==
    IF n = 0 THEN {{}}
    ELSE LET smaller == EnvironmentsUpTo(n - 1)
         IN  smaller \cup {env \cup {e} : env \in smaller, e \in Services}
\* The addresses and ports at which GET /eSCL/ScannerCapabilities can answer
ProbeTargets == [ip : {"192.168.1.5"}, port : {80, 443}]
\* `let ports = [80, 443, 8080, 9100]`
ProbePorts == <<80, 443, 8080, 9100>>

\* parse_mdns_service: id is the TXT uuid or "ip:port"; use_tls is false
MdnsId(uuid, ip, port) ==
    IF uuid # "" THEN [uuid |-> uuid, ip |-> "", port |-> 0]
                 ELSE [uuid |-> "", ip |-> ip, port |-> port]
parse_mdns_service(e) ==
    [id |-> MdnsId(e.uuid, e.ip, e.port), ip |-> e.ip, port |-> e.port, use_tls |-> FALSE]

score_scanner(sc) ==
    (IF sc.use_tls THEN 20 ELSE 0)
    + (CASE sc.port = 443 -> 15 [] sc.port = 80 -> 10 [] sc.port = 8080 -> 5 [] OTHER -> 0)
    + (IF ~ContainsColon(sc.ip) THEN 3
       ELSE IF StartsWithFe80(IpToLowercase(sc.ip)) THEN 0 - 3 ELSE 0)

prefer_scanner_lower(candidate, current) == score_scanner(candidate) < score_scanner(current)
prefer_scanner(candidate, current) == score_scanner(candidate) > score_scanner(current)

OfType(env, w) == {e \in env : e.type = w}

\* probe_escl_endpoint for an answering target
ProbeScanner(t) ==
    [id |-> MdnsId("", t.ip, t.port), ip |-> t.ip, port |-> t.port, use_tls |-> t.port = 443]
\* discover_ip_range collects the probes in the order of ProbePorts, and
\* discover_all keeps the first scanner of an ip (`entry(ip).or_insert`).
Fallback(probes) ==
    {ProbeScanner(t) : t \in {u \in probes :
        \E k \in 1..Len(ProbePorts) :
           /\ ProbePorts[k] = u.port
           /\ \A v \in probes : \A j \in 1..Len(ProbePorts) :
                 (v.ip = u.ip /\ ProbePorts[j] = v.port) => k <= j}}

\* discover_all: `all_scanners.insert(scanner.ip, scanner)` over
\* `scanners.into_values()`, whose order is that of the HashMap: of the scanners
\* with one ip the one inserted last stays, and any of them can be the last.
Merges(found) ==
    {m \in SUBSET found :
        \A sc \in found : Cardinality({x \in m : x.ip = sc.ip}) = 1}

BrowseStart(env) ==
    /\ dWin = 1
    /\ dPending = OfType(env, 1)
    /\ mdnsScanners = {}
    /\ escl_ips = {}
    /\ dSeen = {}

DiscoveryStart(env, probes) ==
    /\ dEnv = env
    /\ dProbes = probes
    /\ dPc = "browse"
    /\ dResults = <<>>
    /\ BrowseStart(env)

\* No discovery is running.
DiscoveryIdle ==
    /\ dEnv = {}
    /\ dProbes = {}
    /\ dPc = "idle"
    /\ dResults = <<>>
    /\ BrowseStart({})

\* discover_all is called in any environment; the probes are read only when no
\* service is resolved.
DiscoveryInit ==
    \E env \in EnvironmentsUpTo(MaxServices) :
       \E probes \in (IF env = {} THEN SUBSET ProbeTargets ELSE {{}}) :
          DiscoveryStart(env, probes)

\* discover_mdns: one ServiceResolved event of the browsed type, any of those
\* not yet received
MdnsEvent ==
    /\ dPc = "browse"
    /\ \E e \in dPending :
         LET t == MDNS_SERVICE_TYPES[dWin]
             parsed == parse_mdns_service(e)
             scanner == IF IsEsclTls(t) THEN [parsed EXCEPT !.use_tls = TRUE] ELSE parsed
             skip == ~IsEscl(t) /\ scanner.ip \in escl_ips
             existing == {x \in mdnsScanners : x.id = scanner.id}
         IN  /\ dPending' = dPending \ {e}
             /\ escl_ips' = IF IsEscl(t) THEN escl_ips \cup {scanner.ip} ELSE escl_ips
             /\ dSeen' = dSeen \cup {[sc |-> scanner, skipped |-> skip]}
             /\ mdnsScanners' =
                   IF skip THEN mdnsScanners
                   ELSE IF existing = {} THEN mdnsScanners \cup {scanner}
                   ELSE IF \A x \in existing : prefer_scanner(scanner, x)
                          THEN (mdnsScanners \ existing) \cup {scanner}
                          ELSE mdnsScanners
    /\ UNCHANGED <<dEnv, dProbes, dPc, dWin, dResults>>
    /\ UNCHANGED nonDiscVars

\* The 5 s of a browse are over: the next service type, or the end of discover_mdns
MdnsWindowEnd ==
    /\ dPc = "browse"
    /\ dPending = {}
    /\ IF dWin < Len(MDNS_SERVICE_TYPES)
         THEN /\ dWin' = dWin + 1
              /\ dPending' = OfType(dEnv, dWin + 1)
              /\ UNCHANGED dPc
         ELSE /\ dPc' = "merge"
              /\ UNCHANGED <<dWin, dPending>>
    /\ UNCHANGED <<dEnv, dProbes, mdnsScanners, escl_ips, dSeen, dResults>>
    /\ UNCHANGED nonDiscVars

\* discover_all after discover_mdns: the merge by ip, the fallback when it is
\* empty, the return; then the next call of discover_all in the same environment
DiscoverAllReturn ==
    /\ dPc = "merge"
    /\ \E all_scanners \in Merges(mdnsScanners) :
         dResults' = Append(dResults, IF all_scanners = {} THEN Fallback(dProbes)
                                                            ELSE all_scanners)
    /\ IF Len(dResults) + 1 < MaxRuns
         THEN /\ dPc' = "browse"
              /\ dWin' = 1
              /\ dPending' = OfType(dEnv, 1)
              /\ mdnsScanners' = {}
              /\ escl_ips' = {}
              /\ dSeen' = {}
         ELSE /\ dPc' = "done"
              /\ UNCHANGED <<dWin, dPending, mdnsScanners, escl_ips, dSeen>>
    /\ UNCHANGED <<dEnv, dProbes>>
    /\ UNCHANGED nonDiscVars

DiscoveryNext ==
    \/ MdnsEvent
    \/ MdnsWindowEnd
    \/ DiscoverAllReturn

(***************************************************************************)
(* pairing.rs and main.rs: one pair_with_docflow command                   *)
(***************************************************************************)
\* Pairing codes as strings of up to MaxCodeLen characters; "A" stands for any
\* character other than '{' and '-'.
CodeTexts == UNION {[1..n -> {"{", "-", "A"}] : n \in 1..MaxCodeLen}
\* `pairing_code.starts_with('{')` and `pairing_code.contains('-')`
StartsWithBrace(text) == text[1] = "{"
ContainsDashAlways(text) == TRUE
ContainsDash(text) == \E i \in 1..Len(text) : text[i] = "-"

\* URLs as an origin followed by '/' characters; <<>> stands for None.
NoUrl == <<>>
UserUrls == {<<"http://host.local:4000">> \o [i \in 1..n |-> "/"] : n \in 0..MaxSlashes}
JsonUrls == {<<"http://qr.local:4000">>, <<"http://qr.local:4000", "/">>}
ServerUrl == <<"http://proxy.local">>
ApiKeys == {"key-A", "key-B"}
\* `url.trim_end_matches('/')`
RECURSIVE TrimEndSlash(_)
TrimEndSlash(u) ==
    IF u # <<>> /\ u[Len(u)] = "/" THEN TrimEndSlash(SubSeq(u, 1, Len(u) - 1)) ELSE u

\* Answers to the POSTs resolve-code and register: 2xx with a body that parses,
\* 2xx with one that does not, another status, a send() error.
PairAnswers == {"ok", "badbody", "non2xx", "transport"}
AnswerOkAny(a) == a # "transport"
AnswerOk(a) == a = "ok"

\* The Err of a POST that was not answered "ok"
PairError(kind, a) ==
    CASE a = "transport" -> IF kind = "register" THEN "reqwest" ELSE "Verbindung fehlgeschlagen"
      [] a = "badbody" -> "reqwest decode"
      [] OTHER -> IF kind = "register" THEN "Registrierung fehlgeschlagen"
                                       ELSE "Code-Auflösung fehlgeschlagen"

\* `result.docflow_url = effective_url.clone()`
ResultUrlOfResponse(effective, response) == response
ResultUrl(effective, response) == effective

NoResult == [api_key |-> "", docflow_url |-> NoUrl, err |-> ""]
\* pairing::pair returns Err(e)
Failure(e) == [NoResult EXCEPT !.err = e]
Unpaired == [vault |-> [api_key |-> "", docflow_url |-> NoUrl], api_key |-> "",
             status |-> [connected |-> FALSE, docflow_url |-> NoUrl, poller_active |-> FALSE],
             poller |-> 0]
Paired == [vault |-> [api_key |-> "key-old", docflow_url |-> <<"http://old.local">>],
           api_key |-> "key-old",
           status |-> [connected |-> TRUE, docflow_url |-> <<"http://old.local">>,
                       poller_active |-> TRUE],
           poller |-> 1]

PairingStart(code, url, start, pc) ==
    /\ pCode = code
    /\ pUrl = url
    /\ pStart = start
    /\ pPc = pc
    /\ pEffective = NoUrl
    /\ pReqs = <<>>
    /\ pResult = NoResult
    /\ pVault = start.vault
    /\ pApiKey = start.api_key
    /\ pStatus = start.status
    /\ pPoller = start.poller
    /\ pTasks = 0

\* No pair command is invoked.
PairingIdle == PairingStart([text |-> <<"A">>, json |-> NoUrl], NoUrl, Unpaired, "idle")

\* pair_with_docflow is invoked with any code and any optional URL, on an agent
\* that is unpaired or paired.  json is the docflow_url of a code that parses as
\* JSON, NoUrl when it does not parse.
PairingInit ==
    \E text \in CodeTexts, url \in UserUrls \cup {NoUrl}, start \in {Unpaired, Paired} :
       \E json \in (IF StartsWithBrace(text) THEN JsonUrls \cup {NoUrl} ELSE {NoUrl}) :
          PairingStart([text |-> text, json |-> json], url, start, "classify")

\* pair: the classification of the code and the effective URL
PrClassify ==
    /\ pPc = "classify"
    /\ LET Go(pc, url) == pPc' = pc /\ pEffective' = url /\ UNCHANGED pResult
           Fail(e) == pPc' = "failed" /\ pResult' = Failure(e) /\ UNCHANGED pEffective
       IN  IF StartsWithBrace(pCode.text)
             THEN IF pCode.json = NoUrl
                    THEN Fail("serde_json")
                    ELSE Go("register", pCode.json)
             ELSE IF ContainsDash(pCode.text)
                    THEN IF pUrl = NoUrl
                           THEN Fail("DocFlow-URL wird für manuelle Codes benötigt")
                           ELSE Go("resolve", TrimEndSlash(pUrl))
                    ELSE Fail("Ungültiger Pairing-Code")
    /\ UNCHANGED <<pCode, pUrl, pStart, pReqs, pVault, pApiKey, pStatus, pPoller, pTasks>>
    /\ UNCHANGED nonPairVars

\* resolve_manual_code
PrResolve ==
    /\ pPc = "resolve"
    /\ \E a \in PairAnswers :
         /\ pReqs' = Append(pReqs, [kind |-> "resolve-code", base |-> TrimEndSlash(pUrl),
                                    answer |-> a])
         /\ IF AnswerOk(a)
              THEN pPc' = "register" /\ UNCHANGED pResult
              ELSE pPc' = "failed" /\ pResult' = Failure(PairError("resolve-code", a))
    /\ UNCHANGED <<pCode, pUrl, pStart, pEffective, pVault, pApiKey, pStatus, pPoller, pTasks>>
    /\ UNCHANGED nonPairVars

\* pair: the POST register and its response
PrRegister ==
    /\ pPc = "register"
    /\ \E a \in PairAnswers :
         /\ pReqs' = Append(pReqs, [kind |-> "register", base |-> pEffective, answer |-> a])
         /\ IF AnswerOk(a)
              THEN /\ \E k \in ApiKeys :
                        pResult' = [api_key |-> k,
                                    docflow_url |-> ResultUrl(pEffective, ServerUrl),
                                    err |-> ""]
                   /\ pPc' = "store"
              ELSE /\ pPc' = "failed"
                   /\ pResult' = Failure(PairError("register", a))
    /\ UNCHANGED <<pCode, pUrl, pStart, pEffective, pVault, pApiKey, pStatus, pPoller, pTasks>>
    /\ UNCHANGED nonPairVars

\* pair: the two keyring writes, each of which can fail without a trace
PrStore ==
    /\ pPc = "store"
    /\ \E keyStored, urlStored \in BOOLEAN :
         pVault' = [api_key |-> IF keyStored THEN pResult.api_key ELSE pVault.api_key,
                    docflow_url |-> IF urlStored THEN pEffective ELSE pVault.docflow_url]
    /\ pPc' = "install"
    /\ UNCHANGED <<pCode, pUrl, pStart, pEffective, pReqs, pResult, pApiKey, pStatus, pPoller,
                   pTasks>>
    /\ UNCHANGED nonPairVars

\* pair_with_docflow after pairing::pair returned Ok
PrInstall ==
    /\ pPc = "install"
    /\ pStatus' = [connected |-> TRUE, docflow_url |-> pResult.docflow_url,
                   poller_active |-> TRUE]
    /\ pApiKey' = pResult.api_key
    /\ pPoller' = pPoller + 1
    /\ pTasks' = pTasks + 1
    /\ pPc' = "paired"
    /\ UNCHANGED <<pCode, pUrl, pStart, pEffective, pReqs, pResult, pVault>>
    /\ UNCHANGED nonPairVars

PairingNext ==
    \/ PrClassify
    \/ PrResolve
    \/ PrRegister
    \/ PrStore
    \/ PrInstall

(***************************************************************************)
(* main.rs, scan_poller.rs: discover_scanners and execute_scan_job on the  *)
(* RwLock of AppState.scanners                                              *)
(***************************************************************************)
CallIds == 1..MaxDiscovers
NoCall == [pc |-> "idle", found |-> {}]

\* What discover_all can return: the ids of the scanners that answer.
FoundSets == SUBSET {"s-1", "s-2"}

NoCadence == [since |-> 0, first |-> FALSE]

SharedIdle ==
    /\ calls = [i \in CallIds |-> NoCall]
    /\ regReaders = 0
    /\ cadence = [w \in WatcherIds |-> NoCadence]

\* The command is invoked and `discovery::discover_all().await.map_err(..)?`
\* returns: Err ends the command, Ok leaves the list in the local `scanners`.
DsDiscoverAll(i) ==
    /\ calls[i].pc = "idle"
    /\ \E ok \in BOOLEAN :
         IF ok THEN \E f \in FoundSets : calls' = [calls EXCEPT ![i] = [pc |-> "store", found |-> f]]
               ELSE calls' = [calls EXCEPT ![i].pc = "done"]
    /\ UNCHANGED <<regReaders, cadence, scanners, status>>
    /\ UNCHANGED <<api_key, poller, folder_watcher, vault, pollers, watchers, cmdPc, cfgKey,
                   discFinal, cmds, overlap>>
    /\ UNCHANGED <<plPc, plJobs, plJob, plStatus, plLog, plPolls>>
    /\ UNCHANGED <<scanVars, folderVars, cycleCounter, discVars, pairVars>>

\* DsStore, but the write does not wait for the read guards.
DsStoreAtOnce(i) ==
    /\ calls[i].pc = "store"
    /\ scanners' = calls[i].found
    /\ calls' = [calls EXCEPT ![i].pc = "status"]
    /\ UNCHANGED <<regReaders, cadence, status>>
    /\ UNCHANGED <<api_key, poller, folder_watcher, vault, pollers, watchers, cmdPc, cfgKey,
                   discFinal, cmds, overlap>>
    /\ UNCHANGED <<plPc, plJobs, plJob, plStatus, plLog, plPolls>>
    /\ UNCHANGED <<scanVars, folderVars, cycleCounter, discVars, pairVars>>

\* `{ let mut stored_scanners = state.scanners.write().await;
\*    *stored_scanners = scanners.clone(); }`: the write guard is granted when no
\* read guard is held.
DsStore(i) ==
    /\ calls[i].pc = "store"
    /\ regReaders = 0
    /\ scanners' = calls[i].found
    /\ calls' = [calls EXCEPT ![i].pc = "status"]
    /\ UNCHANGED <<regReaders, cadence, status>>
    /\ UNCHANGED <<api_key, poller, folder_watcher, vault, pollers, watchers, cmdPc, cfgKey,
                   discFinal, cmds, overlap>>
    /\ UNCHANGED <<plPc, plJobs, plJob, plStatus, plLog, plPolls>>
    /\ UNCHANGED <<scanVars, folderVars, cycleCounter, discVars, pairVars>>

\* `{ let mut status = state.bridge_status.write().await;
\*    status.scanner_count = scanners.len(); status.last_discovery = Some(now); }`
DsStatus(i) ==
    /\ calls[i].pc = "status"
    /\ status' = [status EXCEPT !.scanner_count = Cardinality(calls[i].found),
                                !.last_discovery = TRUE]
    /\ calls' = [calls EXCEPT ![i].pc = "send"]
    /\ UNCHANGED <<regReaders, cadence, scanners>>
    /\ UNCHANGED <<api_key, poller, folder_watcher, vault, pollers, watchers, cmdPc, cfgKey,
                   discFinal, cmds, overlap>>
    /\ UNCHANGED <<plPc, plJobs, plJob, plStatus, plLog, plPolls>>
    /\ UNCHANGED <<scanVars, folderVars, cycleCounter, discVars, pairVars>>

\* The key and the URL are read, send_scanners_to_docflow is called if both are
\* there (its error is logged), Ok(scanners) is returned.
DsSend(i) ==
    /\ calls[i].pc = "send"
    /\ calls' = [calls EXCEPT ![i].pc = "done"]
    /\ UNCHANGED <<regReaders, cadence, scanners, status>>
    /\ UNCHANGED <<api_key, poller, folder_watcher, vault, pollers, watchers, cmdPc, cfgKey,
                   discFinal, cmds, overlap>>
    /\ UNCHANGED <<plPc, plJobs, plJob, plStatus, plLog, plPolls>>
    /\ UNCHANGED <<scanVars, folderVars, cycleCounter, discVars, pairVars>>

\* execute_scan_job: `let scanners = self.scanners.read().await;`.  The lock is
\* tokio's RwLock, which queues a read() behind a write() that is waiting.
ExecuteBegin ==
    /\ regReaders = 0
    /\ \A i \in CallIds : calls[i].pc # "store"
    /\ regReaders' = regReaders + 1
    /\ UNCHANGED <<calls, cadence, scanners, status>>
    /\ UNCHANGED <<api_key, poller, folder_watcher, vault, pollers, watchers, cmdPc, cfgKey,
                   discFinal, cmds, overlap>>
    /\ UNCHANGED <<plPc, plJobs, plJob, plStatus, plLog, plPolls>>
    /\ UNCHANGED <<scanVars, folderVars, cycleCounter, discVars, pairVars>>

\* execute_scan_job returns, after the lookup failed or after
\* scan_escl_with_tls(&scanner.ip, ..) returned: `scanner` borrows from the guard,
\* which is dropped at the end of the function.
ExecuteEnd ==
    /\ regReaders > 0
    /\ regReaders' = regReaders - 1
    /\ UNCHANGED <<calls, cadence, scanners, status>>
    /\ UNCHANGED <<api_key, poller, folder_watcher, vault, pollers, watchers, cmdPc, cfgKey,
                   discFinal, cmds, overlap>>
    /\ UNCHANGED <<plPc, plJobs, plJob, plStatus, plLog, plPolls>>
    /\ UNCHANGED <<scanVars, folderVars, cycleCounter, discVars, pairVars>>

RegistryNext ==
    \/ \E i \in CallIds : DsDiscoverAll(i)
    \/ \E i \in CallIds : DsStore(i)
    \/ \E i \in CallIds : DsStatus(i)
    \/ \E i \in CallIds : DsSend(i)
    \/ ExecuteBegin
    \/ ExecuteEnd

(***************************************************************************)
(* folder_watcher.rs: the watcher loops of the agent and CYCLE_COUNTER     *)
(***************************************************************************)
\* WatcherCycle, with the cycles of the watcher since its last periodic report
\* counted in cadence.
WatcherCycleCounted(w) ==
    /\ watchers[w].pc = "cycle"
    /\ cycleCounter' = (cycleCounter + 1) % TelemetryEvery
    /\ watchers' = [watchers EXCEPT ![w].pc = IF cycleCounter % TelemetryEvery = 0
                                                THEN "report" ELSE "top"]
    /\ cadence' = [cadence EXCEPT ![w] =
                     IF cycleCounter % TelemetryEvery = 0
                       THEN [since |-> 0, first |-> TRUE]
                       ELSE [cadence[w] EXCEPT !.since = IF @ < TelemetryEvery THEN @ + 1 ELSE @]]
    /\ UNCHANGED <<status, api_key, poller, folder_watcher, vault, pollers, cmdPc,
                   cfgKey, discFinal, cmds, overlap>>
    /\ UNCHANGED <<calls, regReaders>>
    /\ UNCHANGED <<scanVars, folderVars, pollVars, discVars, pairVars>>

\* The boot task, configure_folder_sync and the watcher tasks.
CadenceNext ==
    \/ BootRead \/ BootSetStatus \/ BootStartPoller \/ BootActive \/ BootStartWatcher
    \/ BootFsActive
    \/ CfgReadKey \/ CfgReadUrl \/ CfgStopWatcher \/ CfgWatcherStopped \/ CfgVault
    \/ CfgInstall \/ CfgActive
    \/ \E w \in WatcherIds : WatcherStart(w)
    \/ \E w \in WatcherIds : WatcherCheck(w)
    \/ \E w \in WatcherIds : WatcherCycleCounted(w)
    \/ \E w \in WatcherIds : WatcherReport(w)
    \/ \E w \in WatcherIds : WatcherFinal(w)

(***************************************************************************)
(* Specifications                                                          *)
(***************************************************************************)
InitScan == ScanInit /\ FolderIdle /\ AgentIdle /\ PollerTaskIdle /\ DiscoveryIdle /\ PairingIdle /\ SharedIdle
SpecScan == InitScan /\ [][ScanNext]_vars
\* The scan is one future that is driven to its end: a step that is possible is
\* taken.
SpecScanLive == InitScan /\ [][ScanNext]_vars /\ WF_vars(ScanNext)

InitFolder == ScanIdle /\ FolderInit /\ AgentIdle /\ PollerTaskIdle /\ DiscoveryIdle /\ PairingIdle /\ SharedIdle
SpecFolder == InitFolder /\ [][FolderNext]_vars

Init == ScanIdle /\ FolderIdle /\ AgentInit /\ PollerTaskIdle /\ DiscoveryIdle /\ PairingIdle /\ SharedIdle
Spec == Init /\ [][Next]_vars

InitPoller == ScanIdle /\ FolderIdle /\ AgentIdle /\ PollerTaskInit /\ DiscoveryIdle /\ PairingIdle /\ SharedIdle
SpecPoller == InitPoller /\ [][PollerNext]_vars

InitDiscovery == ScanIdle /\ FolderIdle /\ AgentIdle /\ PollerTaskIdle /\ DiscoveryInit /\ PairingIdle /\ SharedIdle
SpecDiscovery == InitDiscovery /\ [][DiscoveryNext]_vars

\* One long-lived loop on its own, the poller's or the watcher's: each runs in its
\* own task and neither reads what the other writes.  The watcher works a directory
\* that holds at most a.pdf, and the directory can be unreadable in any cycle; a
\* pending-scans answer carries at most one command.  The task is scheduled and
\* every request it awaits is answered or times out: a step that is possible is
\* taken.
WatcherStarted == dir0 # [f \in Names |-> NoFile]
InitLoops ==
    /\ ScanIdle /\ AgentIdle /\ DiscoveryIdle /\ PairingIdle /\ SharedIdle
    /\ \/ FolderIdle /\ PollerTaskInit
       \/ /\ PollerTaskIdle
          /\ \E size \in {NoFile, 1, MAX_FILE_SIZE + 1}, action \in PostUploadActions :
                FolderStart([f \in Names |-> IF f = "a.pdf" THEN size
                                             ELSE IF f = "n.txt" THEN 1 ELSE NoFile],
                            [f \in Names |-> NoFile], action)
LoopsNext ==
    \/ ~WatcherStarted /\ PlPoll /\ Len(plJobs') <= 1
    \/ ~WatcherStarted /\ PlNextJob
    \/ ~WatcherStarted /\ PlExecute
    \/ ~WatcherStarted /\ PlUpload
    \/ ~WatcherStarted /\ PlReport
    \/ ~WatcherStarted /\ PlSleep
    \/ WatcherStarted /\ FwReadDir
    \/ WatcherStarted /\ FwReadDirFailed
    \/ WatcherStarted /\ FwNextEntry
    \/ WatcherStarted /\ FwSizeGate
    \/ WatcherStarted /\ FwSample
    \/ WatcherStarted /\ FwHash
    \/ WatcherStarted /\ FwUpload
    \/ WatcherStarted /\ FwPostAction
    \/ WatcherStarted /\ FwEndCycle
    \/ WatcherStarted /\ EnvWrite
SpecLoopsLive == InitLoops /\ [][LoopsNext]_vars /\ WF_vars(LoopsNext)

InitPair ==
    ScanIdle /\ FolderIdle /\ AgentIdle /\ PollerTaskIdle /\ DiscoveryIdle /\ PairingInit
    /\ SharedIdle
SpecPair == InitPair /\ [][PairingNext]_vars

\* discover_scanners commands next to a poller that executes scans.
InitRegistry ==
    ScanIdle /\ FolderIdle /\ AgentIdle /\ PollerTaskIdle /\ DiscoveryIdle /\ PairingIdle
    /\ SharedIdle
SpecRegistry == InitRegistry /\ [][RegistryNext]_vars

\* The same, with the write guard granted to a call that waits for it while the
\* lock is free.
SpecRegistryLive ==
    InitRegistry /\ [][RegistryNext]_vars /\ \A i \in CallIds : WF_vars(DsStore(i))

\* The agent from its start, with the watcher loops' cycles counted.
SpecCadence == Init /\ [][CadenceNext]_vars

(***************************************************************************)
(* Claims about the eSCL scan (SpecScan)                                   *)
(***************************************************************************)
Conflicts(k) == [i \in 1..k |-> "conflict"]

LastDoc == IF docLog = <<>> THEN "" ELSE docLog[Len(docLog)]

\* C1: busy recovery.  For every k in 0..3: after k answers 409 the scan is still
\* going to issue another POST ScanJobs, and when that POST is answered 2xx with a
\* Location header the scan has issued exactly k+1 POSTs, issues no further one,
\* and returns success once NextDocument answers 404.
C1_BusyRecovery ==
    \A k \in 0..3 :
       /\ (postLog = Conflicts(k) /\ scPc # "PreCheck") =>
              /\ scPc \in {"Pause", "Sweep", "Post"}
              /\ scErr = ""
       /\ (Len(postLog) >= k + 1 /\ SubSeq(postLog, 1, k + 1) = Conflicts(k) \o <<"ok_loc">>) =>
              /\ Len(postLog) = k + 1
              /\ scPc \in {"Retrieve", "RetryWait", "Done"} \/ (scPc = "Error" /\ LastDoc = "transport")
              /\ LastDoc = "notfound" => (scPc = "Done" /\ scErr = "" /\ job_url # "")

\* A scan that got 409 three times, then 2xx, then a page, then 404, and is Done.
C1_Witness ==
    /\ scPc = "Done"
    /\ postLog = Conflicts(3) \o <<"ok_loc">>
    /\ pages = <<1>>
    /\ LastDoc = "notfound"

\* C2: exhausted busy.  When all 4 POST ScanJobs were answered 409, the scan has
\* issued exactly 4 POSTs and failed with the "Scanner dauerhaft busy" error.
C2_ExhaustedBusy ==
    (Len(postLog) >= max_retries /\ SubSeq(postLog, 1, max_retries) = Conflicts(max_retries)) =>
        /\ Len(postLog) = max_retries
        /\ scPc = "Error"
        /\ scErr = "Scanner dauerhaft busy"

\* C15: every scan ends in Done or Error, whatever the scanner answers; the
\* Retrieve loop does not go on asking for NextDocument for ever.
C15_ScanTerminates == <>(scPc \in {"Done", "Error"})

\* C26: resource path.  Once the scan has sent a request, the base URL that its
\* requests (ScannerStatus, ScanJobs, the sweep DELETEs) are addressed under is
\* <scheme>://<host>:<port>/<rs_path> with the rs_path of the registry entry the
\* scan was called for.
C26_RequestsUnderRsPath ==
    scPc # "PreCheck" =>
       /\ base_url.port = target.port
       /\ base_url.path = target.rs_path

\* `Ok(ScanResult { job_id, total_pages: pages.len() as u32, pages })`
ScanResult == [job_id |-> job_url, total_pages |-> Len(pages), pages |-> pages]

DocCount(r) == Cardinality({i \in 1..Len(docLog) : docLog[i] = r})

\* C32: page numbering.  The pages a scan has retrieved are, in retrieval order,
\* numbered 1..n without gaps, n being the number of 2xx answers to NextDocument,
\* and the ScanResult of a finished scan has total_pages = n; an answer that is
\* neither 2xx nor 404 adds no page and uses up no page number; the answer 404
\* ends the retrieval, nothing is asked after it.
C32_PageNumbering ==
    /\ \A i \in 1..Len(pages) : pages[i] = i
    /\ Len(pages) = DocCount("page")
    /\ page_number = Len(pages) + 1
    /\ \A i \in 1..Len(docLog) : docLog[i] = "notfound" => i = Len(docLog)
    /\ LastDoc = "notfound" <=> scPc = "Done"
    /\ scPc = "Done" =>
          /\ ScanResult.total_pages = DocCount("page")
          /\ ScanResult.pages = [i \in 1..DocCount("page") |-> i]

\* A finished scan of two pages whose second page was not ready at first.
C32_Witness ==
    /\ scPc = "Done"
    /\ docLog = <<"page", "notready", "page", "notfound">>
    /\ ScanResult.pages = <<1, 2>>

Max0(n) == IF n > 0 THEN n ELSE 0

\* C33: JobCreate fails at once.  A POST ScanJobs answered with a status that is
\* neither 2xx nor 409, or with 2xx and no Location header, is the last request of
\* the scan: the scan has failed with "Scan-Job erstellen fehlgeschlagen" or with
\* "Keine Job-URL erhalten", no POST follows it, no NextDocument was asked, and
\* the sweep DELETEs are those that preceded that POST.
C33_JobCreateFailsAtOnce ==
    \A i \in 1..Len(postLog) :
       postLog[i] \in {"other", "ok_noloc"} =>
          /\ i = Len(postLog)
          /\ scPc = "Error"
          /\ scErr = IF postLog[i] = "other" THEN "Scan-Job erstellen fehlgeschlagen"
                                             ELSE "Keine Job-URL erhalten"
          /\ docLog = <<>>
          /\ sweepDeletes = 20 * Max0(i - 2)
          /\ job_url = ""

\* The third POST was answered 500 after two 409: the scan has failed, with the
\* one sweep that preceded that POST.
C33_Witness ==
    /\ postLog = <<"conflict", "conflict", "other">>
    /\ scPc = "Error"
    /\ sweepDeletes = 20

ConflictCount == Cardinality({i \in 1..Len(postLog) : postLog[i] = "conflict"})

\* C34: the sweep.  The 20 DELETEs of a sweep are issued only in front of the POST
\* with index 2 or 3, after the 409 of the POST before it, and are followed by that
\* POST whatever the DELETEs were answered; at each POST, and at the end of the
\* scan, a scan that has got k answers 409 has issued 20 * max(0, k-1) sweep
\* DELETEs for k <= 3 (and no more than 40 in all).
C34_SweepOnlyBeforeLateAttempts ==
    /\ [](scPc \notin {"Pause", "Sweep"} =>
            sweepDeletes = 20 * Max0((IF ConflictCount <= 3 THEN ConflictCount ELSE 3) - 1))
    /\ [][sweepDeletes' # sweepDeletes =>
            /\ attempt \in {2, 3}
            /\ Len(postLog) = attempt
            /\ postLog[Len(postLog)] = "conflict"
            /\ sweepDeletes' = sweepDeletes + 20
            /\ scPc' = "Post"
            /\ scErr' = ""
            /\ postLog' = postLog]_vars

\* Three 409 and then a job: two sweeps, 40 DELETEs, in front of the POSTs with
\* index 2 and 3.
C34_Witness ==
    /\ postLog = Conflicts(3) \o <<"ok_loc">>
    /\ sweepDeletes = 40
    /\ scPc = "Done"

(***************************************************************************)
(* Claims about the folder watcher's pipeline (SpecFolder)                 *)
(***************************************************************************)
\* The watcher started on two eligible files with identical bytes below the size
\* limit, no other process has written to the directory, and the backend has
\* accepted every upload.
DedupCase ==
    /\ dir0["a.pdf"] = dir0["b.JPG"]
    /\ dir0["a.pdf"] \in 1..MAX_FILE_SIZE
    /\ envWrites = 0
    /\ ~rejected

\* C8: folder dedup.  In the dedup case never more than one folder-upload request
\* carries the hash of the two files, and once the first cycle is over exactly one
\* was sent and the post-upload action has been applied to both files.
C8_FolderDedup ==
    DedupCase =>
       LET h == [sha256 |-> dir0["a.pdf"]] IN
       /\ h \notin sentMore
       /\ cycles >= 1 =>
             /\ h \in sentOnce
             /\ fstatus.files_uploaded = 1
             /\ {"a.pdf", "b.JPG"} \subseteq postDone
             /\ post_upload_action # "Keep" => (dir["a.pdf"] = NoFile /\ dir["b.JPG"] = NoFile)

\* The dedup case after a cycle with MoveToSubfolder: both files are in uploaded/.
C8_Witness ==
    /\ DedupCase
    /\ cycles = 1
    /\ post_upload_action = "MoveToSubfolder"
    /\ uploadedDir["a.pdf"] = 1
    /\ uploadedDir["b.JPG"] = 1
    /\ fstatus.files_uploaded = 1
    /\ sentMore = {}

ThreeEqualPositive(s) == Len(s) = 3 /\ s[1] = s[2] /\ s[2] = s[3] /\ s[1] > 0
StrictlyGrowing(s) == Len(s) = 3 /\ s[1] < s[2] /\ s[2] < s[3]

\* C9: stability gate.  A file is hashed, uploaded or post-processed only when the
\* three sampled sizes are equal and greater than 0; a file whose three samples
\* grow strictly has failed as not stable, and no folder-upload request was sent
\* for it in this pass.
C9_StabilityGate ==
    /\ (fwPc \in {"hash", "upload", "post"} \/ pf.req # NoReq) => ThreeEqualPositive(pf.sizes)
    /\ StrictlyGrowing(pf.sizes) =>
          /\ fwPc = "next"
          /\ pf.req = NoReq
          /\ pf.upLog = <<>>
          /\ fstatus.last_error = <<pf.path, "Datei nicht stabil">>
          /\ dir[pf.path] # NoFile

\* A file sampled at 0, 1 and 2 bytes has just been failed.
C9_Witness ==
    /\ pf.sizes = <<0, 1, 2>>
    /\ fwPc = "next"
    /\ fstatus.errors = 1
    /\ fstatus.files_uploaded = 0

\* C10: retry backoff.  An upload whose attempts 1 and 2 ended in a transport error
\* has slept 2 s when attempt 2 is over, and when attempt 3 is answered 2xx with a
\* valid body upload_file returns Ok having slept 2 + 4 = 6 s between the attempts.
C10_RetryBackoff ==
    /\ pf.upLog = <<"transport", "transport">> => (pf.slept = 2 /\ fwPc = "upload")
    /\ (Len(pf.upLog) = 3 /\ SubSeq(pf.upLog, 1, 2) = <<"transport", "transport">>
          /\ Accepted(pf.upLog[3])) =>
             /\ fwPc = "post"
             /\ pf.slept >= 2 + 4
             /\ pf.file_hash \in known_hashes
             /\ fstatus.files_uploaded >= 1

\* Two transport errors, then an accepted third attempt.
C10_Witness ==
    /\ pf.upLog = <<"transport", "transport", "ok">>
    /\ fwPc = "post"
    /\ pf.slept = 6

\* The eligible files that the watcher found larger than 50 MiB.
Oversize == {f \in Eligible : dir0[f] > 50 * 1024 * 1024}

\* C23: size rejection.  An eligible file that is larger than 50 MiB is never
\* uploaded and never moved or deleted, in any cycle: it stays in the watched
\* directory as it was, no folder-upload request carries its bytes or its hash, its
\* hash is not remembered, no post-upload action is applied to it, and its pass
\* through process_file ends at the size gate.
C23_OversizeNotUploaded ==
    \A f \in Oversize :
       /\ dir[f] = dir0[f]
       /\ uploadedDir[f] # dir0[f]
       /\ f \notin postDone
       /\ [sha256 |-> dir0[f]] \notin (sentOnce \cup sentMore \cup known_hashes)
       /\ pf.path = f => (fwPc \in {"gate", "next"} /\ pf.req = NoReq /\ pf.sizes = <<>>)

\* In the second cycle of a watcher that deletes what it has uploaded, the oversize
\* a.pdf has just been failed at the size gate again.
C23_Witness ==
    /\ "a.pdf" \in Oversize
    /\ post_upload_action = "Delete"
    /\ cycles = 1
    /\ pf.path = "a.pdf"
    /\ fwPc = "next"
    /\ fstatus.last_error = <<"a.pdf", "Datei zu gross">>

\* C24: move collision.  With MoveToSubfolder, when uploaded/ already holds a file
\* with the name of the file, the post-upload action fails the file: the file
\* stays in the watched directory, the file in uploaded/ keeps its content, and
\* errors is incremented.
C24_MoveCollisionFails ==
    [][(/\ fwPc = "post"
        /\ fwPc' = "next"
        /\ post_upload_action = "MoveToSubfolder"
        /\ dir[pf.path] # NoFile
        /\ uploadedDir[pf.path] # NoFile)
          => /\ dir'[pf.path] = dir[pf.path]
             /\ uploadedDir'[pf.path] = uploadedDir[pf.path]
             /\ fstatus'.errors = fstatus.errors + 1]_vars

\* C39: hash of the uploaded bytes.  Every folder-upload request carries as
\* file_hash the SHA-256 of the bytes in its own file part, whatever another
\* process writes to the file between the stability check, the hashing and an
\* upload attempt.
C39_HashOfUploadedBytes ==
    (pf # NoFrame /\ pf.req # NoReq) => pf.req.file_hash = compute_file_hash(pf.req.bytes)

\* C28: move or delete only after acceptance.  A step of the post-upload action
\* that takes a file out of the watched directory after an upload in this pass has
\* had that upload answered with success (a server-side duplicate included); an
\* answer 2xx whose body says success=false does not lead to it.  (A pass that
\* finds the hash known sends no upload; the formula asks nothing of it.)
C28_ActionOnlyAfterAcceptance ==
    [][(/\ fwPc = "post"
        /\ fwPc' = "next"
        /\ dir[pf.path] # NoFile
        /\ dir'[pf.path] = NoFile
        /\ pf.upLog # <<>>)
          => pf.upLog[Len(pf.upLog)] \in {"ok", "ok_duplicate"}]_vars

\* C29: upload attempts.  One call of upload_file sends at most 3 folder-upload
\* POSTs, whatever the answers (a 429 is one of them); the third POST that is not
\* answered 2xx with a valid body ends the call, and a call that ends in an error
\* fails the file for this cycle: errors is incremented, the hash is not inserted
\* into known_hashes, files_uploaded is unchanged and no post-upload action is
\* applied.
C29_UploadAttempts ==
    [][/\ Len(pf'.upLog) <= 3
       /\ (fwPc = "upload" /\ Len(pf.upLog) = 2 /\ pf' # pf) => fwPc' \in {"post", "next"}
       /\ (fwPc = "upload" /\ fwPc' = "next") =>
             /\ known_hashes' = known_hashes
             /\ fstatus'.files_uploaded = fstatus.files_uploaded
             /\ fstatus'.errors = fstatus.errors + 1
             /\ postDone' = postDone
             /\ dir' = dir
             /\ uploadedDir' = uploadedDir]_vars

\* Two POSTs of one call were not accepted, the first with a 429: the third is
\* about to be sent.
C29_Witness ==
    /\ fwPc = "upload"
    /\ pf.upLog = <<"r429", "transport">>
    /\ pf.attempt = 2
    /\ pf.slept = RateLimitSleep + 2
    /\ known_hashes = {}

\* C30: one error per oversize file.  When the only eligible file of the watched
\* directory is larger than 50 MiB and stays there, errors is 1 and last_error
\* names the file once a cycle has run, however many cycles run.
C30_OversizeOneError ==
    (dir0["a.pdf"] > 50 * 1024 * 1024 /\ dir0["b.JPG"] = NoFile /\ cycles >= 1) =>
       /\ fstatus.errors = 1
       /\ fstatus.last_error # <<>>
       /\ fstatus.last_error[1] = "a.pdf"

(***************************************************************************)
(* Claims about the agent lifecycle (Spec)                                 *)
(***************************************************************************)
\* A step in which the task of poller p sends a request: the pending-scans poll,
\* or the scanner's requests with the scan-upload or the error report of a job.
PollerSends(p) == pollers[p].pc \in {"poll", "job"} /\ pollers'[p].pc # pollers[p].pc

\* A step in which the task of watcher w sends a folder-sync-status report: the
\* periodic one or the last one.
WatcherSends(w) ==
    \/ watchers[w].pc = "cycle" /\ watchers'[w].pc = "report"
    \/ watchers[w].pc = "top" /\ watchers'[w].pc = "final"

NoCommandRunning == \A c \in Commands : cmdPc[c] \in {"idle", "done"}

\* C3: disconnect finality (requests).  Once a disconnect command has returned (no
\* command having run concurrently with another or with the boot task, no pair
\* command started since, no command in progress), no poller task and no watcher
\* task takes a step that sends an HTTP request.
C3_NoRequestAfterDisconnect ==
    [][(discFinal /\ ~overlap /\ NoCommandRunning) =>
          /\ \A p \in PollerIds : ~PollerSends(p)
          /\ \A w \in WatcherIds : ~WatcherSends(w)]_vars

\* C4: disconnect finality (status).  After a disconnect command has returned, and
\* as long as no pair command is started afterwards, get_status returns
\* connected = false, poller_active = false and folder_sync_active = false.
C4_StatusAfterDisconnect ==
    discFinal =>
       /\ ~get_status.connected
       /\ ~get_status.poller_active
       /\ ~get_status.folder_sync_active

\* The pollers whose loop is running and has not been told to stop.
AlivePollers == {p \in PollerIds : pollers[p].pc \in PollerLoopPcs /\ pollers[p].running}

\* C5: at any time at most one Scan Poller loop is alive, already when the boot
\* task and the commands run one after the other.
C5_OnePollerAlive == ~overlap => Cardinality(AlivePollers) <= 1

\* The watchers whose loop is in read_dir / process_file.
ProcessingWatchers == {w \in WatcherIds : watchers[w].pc = "cycle"}

\* C6: at no time do two Folder Watcher loops process files concurrently: a
\* predecessor has finished processing before its successor starts a cycle, already
\* when the boot task and the commands run one after the other.
C6_OneWatcherProcessing == ~overlap => Cardinality(ProcessingWatchers) <= 1

\* C7: once stop has been called on a poller or a watcher, its loop begins no new
\* iteration: the check at the loop top does not let it pass (already when the boot
\* task and the commands run one after the other).
C7_StopHonoured ==
    [][~overlap =>
       /\ \A p \in PollerIds :
             (pollers[p].stopCalled /\ pollers[p].pc = "top") => pollers'[p].pc # "poll"
       /\ \A w \in WatcherIds :
             (watchers[w].stopCalled /\ watchers[w].pc = "top") => watchers'[w].pc # "cycle"]_vars

\* A step of the configure_folder_sync command up to the end of its checks.
ConfigureChecks ==
    /\ cmdPc["configure"] \in {"idle", "readUrl"}
    /\ cmdPc'["configure"] \in {"idle", "readUrl"}
    /\ cmdPc'["configure"] # cmdPc["configure"]

\* C37: status agrees with the handles.  Whenever no command and no boot task is in
\* progress, poller_active is true exactly when AppState holds a poller and
\* folder_sync_active exactly when it holds a watcher, and every task that is in
\* its loop is the one of the handle, whatever the interleaving of pair,
\* disconnect, configure_folder_sync and stop_folder_sync was.
C37_StatusMatchesHandles ==
    NoCommandRunning =>
       /\ get_status.poller_active <=> poller # 0
       /\ get_status.folder_sync_active <=> folder_watcher # 0
       /\ \A p \in PollerIds : pollers[p].pc \in PollerLoopPcs => p = poller
       /\ \A w \in WatcherIds : watchers[w].pc \in WatcherLoopPcs => w = folder_watcher

\* C31: telemetry cadence.  Every watcher the agent creates sends its periodic
\* folder-sync-status report exactly once in every 6 consecutive cycles of its own
\* loop: it never completes 6 cycles in a row without a report, and from one
\* report of it to its next there are exactly 5 cycles without one; also for a
\* watcher started after, or running next to, another one.
C31_TelemetryCadence ==
    /\ [](\A w \in WatcherIds : cadence[w].since <= 5)
    /\ [][\A w \in WatcherIds :
             (watchers[w].pc = "cycle" /\ watchers'[w].pc = "report" /\ cadence[w].first) =>
                 cadence[w].since = 5]_vars

\* C38: scanner count.  Once every discover_scanners command that was invoked has
\* returned, scanner_count is the number of scanners in the registry, also when
\* two of the commands ran at the same time.
C38_CountMatchesRegistry ==
    (\A i \in CallIds : calls[i].pc \in {"idle", "done"}) =>
        get_status.scanner_count = Cardinality(scanners)

\* C40: the registry under a scan.  While execute_scan_job holds its read guard
\* (from the lookup to the end of the scan) no discover_scanners command replaces
\* the registry: a command that has its list waits at the write, a step that
\* stores the list is taken with no read guard held; and a command that waits at
\* the write while no read guard is held does store its list.
C40_RegistryWriteWaits ==
    /\ [][regReaders > 0 => scanners' = scanners]_vars
    /\ [][\A i \in CallIds :
             (calls[i].pc = "store" /\ calls'[i].pc # "store") =>
                 (regReaders = 0 /\ scanners' = calls[i].found)]_vars
    /\ \A i \in CallIds :
          (calls[i].pc = "store" /\ regReaders = 0) ~> (calls[i].pc # "store")

\* A command has found a scanner that is not in the registry and waits at the
\* write while a scan holds the read guard.
C40_Witness ==
    /\ regReaders = 1
    /\ \E i \in CallIds : calls[i].pc = "store" /\ calls[i].found # scanners

\* C21: configure_folder_sync rejected.  A configure_folder_sync command that finds
\* the agent not connected (no API key when it reads it, or no DocFlow URL when it
\* reads that) returns an error at its checks, and a command that returns at its
\* checks (the missing directory included) has changed nothing: the tasks of the
\* watchers and pollers, the watcher and poller handles, the vault, the API key
\* and bridge_status are what they were.
C21_ConfigureRejected ==
    [][/\ (cmdPc["configure"] = "readUrl" /\ cmdPc'["configure"] # "readUrl"
             /\ ~(cfgKey /\ status.docflow_url)) => cmdPc'["configure"] = "idle"
       /\ ConfigureChecks =>
             UNCHANGED <<status, api_key, poller, folder_watcher, vault, pollers,
                         watchers>>]_vars

\* The command has read that there is no API key while a watcher loop is running
\* and the vault holds an enabled folder config.
C21_Witness ==
    /\ cmdPc["configure"] = "readUrl"
    /\ ~cfgKey
    /\ vault.folder_sync_config = "enabled"
    /\ \E w \in WatcherIds : watchers[w].pc \in WatcherLoopPcs /\ watchers[w].running

\* C22: status after disconnect.  When a disconnect command returns (no command
\* having run concurrently with another or with the boot task), bridge_status is
\* the default of AppState in every field: connected = false, docflow_url absent,
\* scanner_count = 0, last_discovery absent, poller_active = false,
\* jobs_processed = 0, folder_sync_active = false, folder_sync_path absent.
C22_StatusResetToDefault ==
    [][(cmdPc["disconnect"] = "key" /\ cmdPc'["disconnect"] = "idle" /\ ~overlap)
          => get_status' = [connected |-> FALSE, docflow_url |-> FALSE,
                            scanner_count |-> 0, last_discovery |-> FALSE,
                            poller_active |-> FALSE, jobs_processed |-> 0,
                            folder_sync_active |-> FALSE,
                            folder_sync_path |-> FALSE]]_vars

\* C25: last report of a stopped watcher.  Once stop has been called on a watcher
\* and the request of stop (folder_sync_enabled = false) has been answered, the
\* task of that watcher sends no folder-sync-status request that carries
\* folder_sync_enabled = true.
C25_LastReportDisabled ==
    [][\A w \in WatcherIds :
          (watchers[w].stopCalled /\ FwReaders = {} /\ WatcherSends(w))
             => ~ConfigEnabled(w)]_vars

(***************************************************************************)
(* Claims about the long-lived loops (SpecLoopsLive)                       *)
(***************************************************************************)
\* C27: the loops survive the errors of an iteration.  Whatever the poll, the scan,
\* the upload or the error report of a poller cycle was answered, the poller gets
\* back to the top of its loop, where the next pending-scans poll is sent, and it
\* sends that poll while the model lets it; whatever the directory read and the
\* processing of the files of a watcher cycle came to, the watcher gets back to the
\* top of its loop and begins cycle n + 1 after cycle n.  (Neither loop is told to
\* stop, and every call returns.)
C27_LoopsSurvive ==
    /\ (plPc # "poll") ~> (plPc = "poll")
    /\ (~WatcherStarted /\ plPolls = 0) ~> (plPolls = 1)
    /\ (fwPc # "top") ~> (fwPc = "top")
    /\ \A n \in 0..(MaxCycles - 1) : (WatcherStarted /\ cycles = n) ~> (cycles = n + 1)

\* The watcher is in its second cycle after a cycle in which the file failed, and
\* the file has just failed again.
C27_Witness ==
    /\ WatcherStarted
    /\ cycles = 1
    /\ fwPc = "next"
    /\ fstatus.errors = 2
    /\ fstatus.last_error = <<"a.pdf", "Upload fehlgeschlagen">>

(***************************************************************************)
(* Claims about the poller's commands (SpecPoller)                         *)
(***************************************************************************)
\* The request at position i of the log ended its command: a 2xx upload or an
\* error report.
EndsCommand(i) ==
    \/ plLog[i].kind = "report"
    \/ plLog[i].kind = "upload" /\ plLog[i].answer = "s2xx"

\* C11: within one poll the commands are processed one after another in the order
\* of the jobs array: the first request of a poll is for its first command, a
\* request for another command than the one before is for the next command of the
\* array, and the request before it was the upload or error report that ended the
\* previous command.
C11_SequentialInOrder ==
    \A i \in 1..Len(plLog) :
        LET first == i = 1 \/ plLog[i - 1].cycle # plLog[i].cycle
        IN  /\ first => plLog[i].n = 1
            /\ (~first /\ plLog[i - 1].n # plLog[i].n) =>
                   /\ plLog[i].n = plLog[i - 1].n + 1
                   /\ EndsCommand(i - 1)
            /\ (~first /\ plLog[i - 1].n = plLog[i].n) => ~EndsCommand(i - 1)

C11_Witness ==
    \E i \in 2..Len(plLog) :
        /\ plLog[i].cycle = plLog[i - 1].cycle
        /\ plLog[i - 1].n = 1
        /\ plLog[i].n = 2
        /\ plLog[i].kind = "scanner"

OkUploads == {i \in 1..Len(plLog) : plLog[i].kind = "upload" /\ plLog[i].answer = "s2xx"}

\* C12: jobs_processed of the poller counts exactly the uploads answered 2xx: it
\* grows by one in the step that gets such an answer and in no other step (a
\* lookup failure, a scan error, zero pages, a failed upload, an error report).
C12_CountsOkUploads ==
    [][/\ plStatus'.jobs_processed = Cardinality(OkUploads')
       /\ plStatus'.jobs_processed =
             IF Len(plLog') > Len(plLog) /\ plLog'[Len(plLog')].kind = "upload"
                                         /\ plLog'[Len(plLog')].answer = "s2xx"
               THEN plStatus.jobs_processed + 1
               ELSE plStatus.jobs_processed]_vars

\* Of two commands one was uploaded with a 2xx answer and the other failed:
\* its upload was refused, or its scan gave no page.
C12_Witness ==
    /\ plStatus.jobs_processed = 1
    /\ plPc = "sleep"
    /\ \E i \in 1..Len(plLog) :
          \/ plLog[i].kind = "upload" /\ plLog[i].answer = "non2xx"
          \/ plLog[i].kind = "scanner" /\ plLog[i].answer = "zero_pages"

\* C35 as stated: a poll answered 401 is not recorded in last_error; last_error is
\* empty after a successful poll and holds the error of a poll that failed
\* otherwise.
C35_Silent401 ==
    /\ plStatus.last_error \in {"", PollError("s500"), PollError("badbody"), PollError("transport")}
    /\ plPc = "next" => plStatus.last_error = ""

\* The requests of the current cycle about its n-th command, by kind.
CycleRequests(n, kind) ==
    {i \in 1..Len(plLog) : plLog[i].cycle = plPolls /\ plLog[i].n = n /\ plLog[i].kind = kind}

UploadAccepted(n) == \E i \in CycleRequests(n, "upload") : plLog[i].answer = "s2xx"

\* The commands of the current cycle the loop is done with.
CommandsDone ==
    IF plJob = NoJob THEN {}
    ELSE IF plPc \in {"execute", "upload", "report"} THEN 1..(plJob.n - 1)
    ELSE 1..plJob.n

\* C36: one outcome per command.  For every command of a poll the loop is done
\* with, scan-upload/<job_id> got in that cycle either one upload (success="true")
\* that was answered 2xx and no error report, or exactly one error report
\* (success="false") and no upload answered 2xx; and no command, done or not, has
\* both an accepted upload and an error report, or two error reports.
C36_OneOutcomePerCommand ==
    /\ \A n \in CommandsDone :
          \/ /\ UploadAccepted(n)
             /\ Cardinality(CycleRequests(n, "upload")) = 1
             /\ CycleRequests(n, "report") = {}
          \/ /\ ~UploadAccepted(n)
             /\ Cardinality(CycleRequests(n, "report")) = 1
             /\ \A i \in CycleRequests(n, "report") :
                   /\ plLog[i].error_message # <<>>
                   /\ \A j \in CycleRequests(n, "upload") : j < i
    /\ \A n \in 1..MaxJobs :
          /\ Cardinality(CycleRequests(n, "report")) <= 1
          /\ UploadAccepted(n) => CycleRequests(n, "report") = {}

\* A poll of two commands: the upload of the first was accepted, the upload of the
\* second was answered with an error status and reported.
C36_Witness ==
    /\ plPc = "next"
    /\ CommandsDone = {1, 2}
    /\ UploadAccepted(1)
    /\ ~UploadAccepted(2)
    /\ CycleRequests(2, "upload") # {}
    /\ CycleRequests(2, "report") # {}

\* C13: after n uploads answered 2xx the jobs_processed field of the BridgeStatus
\* that get_status returns is n.
C13_StatusJobsProcessed == get_status.jobs_processed = Cardinality(OkUploads)

\* The requests of log sent for the command at position n of poll c.
SentFor(log, c, n) == {i \in 1..Len(log) : log[i].cycle = c /\ log[i].n = n}
Contains(msg, id) == \E k \in 1..Len(msg) : msg[k] = id

\* C14: for a command whose scanner_id is not in the registry no request goes to
\* a scanner and no result is uploaded; once the command is finished exactly one
\* request was sent for it, the error report with the scanner_id in its
\* error_message; jobs_processed and last_error are what they were before.
C14_ScannerNotFound ==
    [][/\ \A i \in 1..Len(plLog') :
             plLog'[i].scanner_id \notin scanners' =>
                 /\ plLog'[i].kind = "report"
                 /\ Contains(plLog'[i].error_message, plLog'[i].scanner_id)
                 /\ SentFor(plLog', plLog'[i].cycle, plLog'[i].n) = {i}
       /\ (plPc = "report" /\ plJob.scanner_id \notin scanners) =>
             /\ plPc' = "next"
             /\ Cardinality(SentFor(plLog', plPolls, plJob.n)) = 1
       /\ (plPc \in {"execute", "report"} /\ plJob.scanner_id \notin scanners) =>
             /\ plStatus'.jobs_processed = plStatus.jobs_processed
             /\ plStatus'.last_error = plStatus.last_error
             /\ plStatus'.last_error = ""]_vars

C14_Witness ==
    /\ plPc = "next"
    /\ plJob.scanner_id = "ghost"
    /\ \E i \in 1..Len(plLog) :
          /\ plLog[i].kind = "report"
          /\ plLog[i].job_id = plJob.job_id
          /\ plLog[i].cycle = plPolls
          /\ plLog[i].error_message = <<"Scanner nicht gefunden", "ghost">>
    /\ plStatus.jobs_processed = 1

(***************************************************************************)
(* Claims about discovery (SpecDiscovery)                                  *)
(***************************************************************************)
\* The score as the specification states it: +20 for TLS, +15/+10/+5/0 for port
\* 443/80/8080/other, +3 for an IPv4 address, -3 for an IPv6 link-local one.
IsIPv4(ip) == ip \in {"192.168.1.5", "192.168.1.6"}
IsLinkLocal(ip) == ip \in {"FE80::1"}
StatedScore(sc) ==
    (IF sc.use_tls THEN 20 ELSE 0)
    + (IF sc.port = 443 THEN 15 ELSE IF sc.port = 80 THEN 10 ELSE IF sc.port = 8080 THEN 5 ELSE 0)
    + (IF IsIPv4(sc.ip) THEN 3 ELSE IF IsLinkLocal(sc.ip) THEN 0 - 3 ELSE 0)

\* C16 as stated: of two candidates with the same id seen in one discovery, under
\* any of the three service types, the retained one has a score at least that of
\* the discarded one.
C16_PreferenceAnyType ==
    \A c \in dSeen : \A r \in mdnsScanners :
        r.id = c.sc.id => StatedScore(r) >= StatedScore(c.sc)

\* C16: of two candidates with the same id that reach the comparison in one
\* discovery (neither is a `_scanner._tcp` candidate dropped because its ip was
\* found under an eSCL type), the retained one has a score at least that of the
\* discarded one; a candidate is retained for every id that reached the comparison.
C16_PreferenceMonotone ==
    \A c \in dSeen :
        ~c.skipped =>
            /\ \E r \in mdnsScanners : r.id = c.sc.id
            /\ \A r \in mdnsScanners : r.id = c.sc.id => StatedScore(r) >= StatedScore(c.sc)

\* Two candidates with one id and different scores were compared, and the one
\* that came under the later service type is retained.
C16_Witness ==
    /\ dPc = "merge"
    /\ \E c, d \in dSeen :
          /\ ~c.skipped /\ ~d.skipped
          /\ c.sc.id = d.sc.id
          /\ StatedScore(d.sc) > StatedScore(c.sc)
          /\ d.sc.use_tls /\ ~c.sc.use_tls
          /\ d.sc \in mdnsScanners

\* C17: two calls of discover_all in the same environment return the same set of
\* (id, ip, port, use_tls).
C17_Idempotent == Len(dResults) >= 2 => dResults[1] = dResults[2]

(***************************************************************************)
(* Claims about pairing (SpecPair)                                         *)
(***************************************************************************)
Chars(text) == {text[i] : i \in 1..Len(text)}
IsStructured(text) == Head(text) = "{"
IsManual(text) == Head(text) # "{" /\ "-" \in Chars(text)
IsRejected(text) == Head(text) # "{" /\ "-" \notin Chars(text)

\* C18: a code beginning with '{' is taken as structured even if it contains '-',
\* another code containing '-' as manual, any other code is rejected as
\* "Ungültiger Pairing-Code"; a rejected code and a manual code without a
\* user-provided URL fail without any HTTP request.
C18_Classification ==
    pPc \notin {"idle", "classify"} =>
        /\ IsRejected(pCode.text) =>
              /\ pPc = "failed"
              /\ pResult.err = "Ungültiger Pairing-Code"
              /\ pReqs = <<>>
        /\ (IsManual(pCode.text) /\ pUrl = NoUrl) =>
              /\ pPc = "failed"
              /\ pResult.err = "DocFlow-URL wird für manuelle Codes benötigt"
              /\ pReqs = <<>>
        /\ (IsManual(pCode.text) /\ pUrl # NoUrl) =>
              /\ pPc = "resolve" \/ (pReqs # <<>> /\ pReqs[1].kind = "resolve-code")
              /\ pResult.err # "Ungültiger Pairing-Code"
        /\ IsStructured(pCode.text) =>
              /\ \A i \in 1..Len(pReqs) : pReqs[i].kind = "register"
              /\ pResult.err \in {"", "serde_json", "reqwest", "reqwest decode",
                                  "Registrierung fehlgeschlagen"}

C18_Witness ==
    /\ pPc = "failed"
    /\ pCode.text = <<"A", "A">>
    /\ pUrl # NoUrl
    /\ pResult.err = "Ungültiger Pairing-Code"
    /\ pReqs = <<>>

\* C19 as stated: after a successful pair the docflow_url returned and stored in
\* the vault is the user-provided URL for a manual code and the URL of the JSON
\* for a structured one, never that of the register response, and the api_key of
\* the response is in the vault.
C19_UrlAsGiven ==
    pPc = "paired" =>
        /\ IsManual(pCode.text) => (pResult.docflow_url = pUrl /\ pVault.docflow_url = pUrl)
        /\ IsStructured(pCode.text) =>
              (pResult.docflow_url = pCode.json /\ pVault.docflow_url = pCode.json)
        /\ pResult.docflow_url # ServerUrl
        /\ pVault.api_key = pResult.api_key

\* u is v without the '/' characters at its end.
IsTrimmed(u, v) ==
    /\ Len(u) <= Len(v)
    /\ SubSeq(v, 1, Len(u)) = u
    /\ u = <<>> \/ u[Len(u)] # "/"
    /\ \A i \in (Len(u) + 1)..Len(v) : v[i] = "/"

\* C19: after a successful pair the docflow_url returned is, for a manual code,
\* the user-provided URL without the '/' characters at its end and, for a
\* structured code, the URL of the JSON as it is; it is never that of the register
\* response.  Each of the two vault slots holds the returned value, api_key
\* unchanged, or, when its write failed, what it held before; the status and the
\* in-memory key get the returned values.
C19_EffectiveUrl ==
    pPc \in {"install", "paired"} =>
        /\ IsManual(pCode.text) => IsTrimmed(pResult.docflow_url, pUrl)
        /\ IsStructured(pCode.text) => pResult.docflow_url = pCode.json
        /\ pResult.docflow_url # ServerUrl
        /\ pVault.docflow_url \in {pResult.docflow_url, pStart.vault.docflow_url}
        /\ pVault.api_key \in {pResult.api_key, pStart.vault.api_key}
        /\ pPc = "paired" =>
              (pStatus.docflow_url = pResult.docflow_url /\ pApiKey = pResult.api_key)

C19_Witness ==
    /\ pPc = "paired"
    /\ IsManual(pCode.text)
    /\ pUrl = <<"http://host.local:4000", "/">>
    /\ pResult.docflow_url = <<"http://host.local:4000">>
    /\ pVault.docflow_url = <<"http://host.local:4000">>
    /\ pVault.api_key = pResult.api_key
    /\ pStart = Paired

\* The command has failed or must fail: the code is rejected, manual without a
\* URL or not parsable, or a request was answered with an error.
PairMustFail ==
    \/ pPc = "failed"
    \/ /\ pPc # "classify"
       /\ \/ IsRejected(pCode.text)
          \/ IsManual(pCode.text) /\ pUrl = NoUrl
          \/ IsStructured(pCode.text) /\ pCode.json = NoUrl
    \/ \E i \in 1..Len(pReqs) : pReqs[i].answer # "ok"

\* C20: a pair command that fails leaves the vault slots, the in-memory api key,
\* the status and the poller handle as they were when it began, and starts no
\* poller task.
C20_FailedPairChangesNothing ==
    (pPc # "idle" /\ PairMustFail) =>
        /\ pPc = "failed"
        /\ pResult.err # ""
        /\ pVault = pStart.vault
        /\ pApiKey = pStart.api_key
        /\ pStatus = pStart.status
        /\ pPoller = pStart.poller
        /\ pTasks = 0

C20_Witness ==
    /\ pPc = "failed"
    /\ pStart = Paired
    /\ Len(pReqs) = 2
    /\ pReqs[1].answer = "ok"
    /\ pReqs[2].kind = "register"
    /\ pReqs[2].answer = "non2xx"
    /\ pVault = Paired.vault

====
